---- MODULE Spec2Model ----
(***************************************************************************)
(* Debate-Club backend: the session registry (models/session.py), the      *)
(* timer manager (utils/timers.py), the REST routes (routes/api.py) and    *)
(* the Socket.IO handlers (routes/websocket.py), as a state machine, with  *)
(* the judging pipeline (services/judge.py) and the scoring it asks for    *)
(* (services/gemini.py).                                                   *)
(*                                                                         *)
(* Handlers run on threads. A handler that holds the registry lock for its *)
(* whole body is one action; a handler that reads and writes the session   *)
(* object outside the lock is a sequence of steps, one per access to       *)
(* shared state, with the thread's position in pc and its locals in loc.   *)
(*                                                                         *)
(* Not modelled: argument text (only its validation class and, where it is *)
(* scored, the counts the heuristic scorer reads of it), timestamps        *)
(* other than the timers' started_at, Participant.connected, and the       *)
(* payload of emitted events (an emit changes no program state).           *)
(* Session ids and invite codes are random tokens in the code; the model   *)
(* hands out fresh ones in a fixed order.                                  *)
(*                                                                         *)
(* Specifications:                                                         *)
(*   Spec         the life of one invite session, one handler at a time    *)
(*   SpecDebate   a debate under way with the clock and the timeouts,      *)
(*                one handler at a time                                    *)
(*   SpecRace     two submissions handled concurrently                     *)
(*   SpecTimeout  a submission and a turn timeout handled concurrently     *)
(*   SpecFinish   two finish triggers handled concurrently                 *)
(*   SpecTimers   the timer manager alone, for two session ids             *)
(*   SpecTimerCalls  the timer manager for one id, the caller keeping what *)
(*                it called, what it found and what was returned           *)
(*   SpecMatch    matchmaking: invite sessions, joins by code, random      *)
(*                matches and topic selection, two requests at a time      *)
(*   SpecStart    a debate from the coin toss on, with the clock, joins    *)
(*                and re-joins of the room, one handler at a time          *)
(*   SpecScore    the heuristic scorer applied to one argument             *)
(*   SpecJudge    the judging pipeline stage by stage, called when a       *)
(*                debate is ended over the socket or over REST             *)
(*   SpecTopics   two topic requests handled concurrently                  *)
(*   SpecTwo      two debates side by side, a handler thread for each,     *)
(*                scheduled fairly                                         *)
(*   SpecLive     a debate from the coin toss to its end under fair        *)
(*                scheduling of the clock, the timers and the handlers     *)
(*   SpecVeto     the choice of the topic in a random match                *)
(***************************************************************************)
EXTENDS Integers, Sequences, FiniteSets, TLC

VARIABLES
  sessions,             \* SessionRegistry._sessions: id -> DebateSession
  parts,                \* the Participant objects, by object identity
  waiting_random,       \* SessionRegistry._waiting_random
  lock,                 \* owner of SessionRegistry._lock (a thread) or None
  socket_participants,  \* websocket._socket_participants: sid -> mapping
  turn_timers,          \* TimerManager._turn_timers
  total_timers,         \* TimerManager._total_timers
  timer_threads,        \* the threading.Timer objects started and neither
                        \* fired nor cancelled
  turn_tasks,           \* background tasks _handle_turn_timeout not yet run
  total_tasks,          \* background tasks _handle_total_timeout not yet run
  now,                  \* time.time(), in whole seconds
  judge_runs,           \* per session: judging pipelines run to completion
  pc,                   \* per thread: position in its handler
  loc                   \* per thread: the handler's local variables

vars == <<sessions, parts, waiting_random, lock, socket_participants,
          turn_timers, total_timers, timer_threads, turn_tasks, total_tasks,
          now, judge_runs, pc, loc>>

registryVars == <<sessions, parts, waiting_random>>
timerVars == <<turn_timers, total_timers, timer_threads>>
taskVars == <<turn_tasks, total_tasks>>

----------------------------------------------------------------------------
(* Values *)

None == "none"

PROPONENT == "pro"
OPPONENT == "con"
Roles == {PROPONENT, OPPONENT}

LOBBY == "lobby"
VETO == "veto"
COIN_TOSS == "coin_toss"
DEBATING == "debating"
FINISHED == "finished"

SessionOrder == <<"s1", "s2">>
SessionIds == {SessionOrder[i] : i \in DOMAIN SessionOrder}
Sockets == {"k1", "k2"}
Threads == {"t1", "t2"}

\* settings (config.py); the defaults are 30 s, 600 s, 60 turns, 1 refresh,
\* each read from the environment. The model runs a short debate.
default_turn_seconds == 1
default_total_seconds == 2
max_turns == 2
topic_refresh_limit == 1
MAX_ARGUMENT_LENGTH == 2000

\* Bounds of the model.
MaxTime == 2
MaxTasks == 1
MaxJudgeRuns == 2
MaxArgs == 3

\* Messages by what validate_argument_length looks at: the length of the
\* text and the length of the text stripped of white space.
Messages == { [len |-> 0, stripped |-> 0],
              [len |-> 3, stripped |-> 0],
              [len |-> 3, stripped |-> 3],
              [len |-> MAX_ARGUMENT_LENGTH + 1, stripped |-> MAX_ARGUMENT_LENGTH + 1] }

Range(f) == {f[x] : x \in DOMAIN f}

\* dict assignment d[k] = v
Put(d, k, v) == [x \in DOMAIN d \cup {k} |-> IF x = k THEN v ELSE d[x]]

\* dict.pop(k)
Drop(d, k) == [x \in DOMAIN d \ {k} |-> d[x]]

----------------------------------------------------------------------------
(* validators.py *)

validate_argument_length(message) ==
  IF message.stripped = 0 THEN "Argument cannot be empty"
  ELSE IF message.len > MAX_ARGUMENT_LENGTH THEN "Argument too long"
  ELSE "ok"

ensure_roles_present(roles) == Cardinality(roles) >= 2

----------------------------------------------------------------------------
(* models/session.py: the entities *)

NewParticipant(sid, name, role) ==
  [session_id |-> sid, socket_id |-> None, name |-> name, role |-> role,
   vetoed_topic |-> None, time_spent_seconds |-> 0]

\* result = None: no SessionResult yet. A result carries the number of the
\* judging run that produced it and the length of the transcript it judged.
NoResult == [run |-> 0, turns |-> 0]

\* metadata without the coinToss key (and coinTossCompleted absent, which
\* reads as false)
NoCoinToss == [pro |-> None, con |-> None]

\* str.upper, on the codes the model deals in
Upper(code) ==
  CASE code = "s1" -> "S1"
    [] code = "s2" -> "S2"
    [] code = "zz" -> "ZZ"
    [] OTHER -> code

\* _generate_invite_code: upper-case letters and digits; the model gives
\* session s1 the code S1
InviteCode(sid) == Upper(sid)

NewSession(sid) ==
  [session_id |-> sid, invite_code |-> InviteCode(sid), status |-> LOBBY,
   participants |-> <<>>, topic_options |-> <<>>, topic_refreshes |-> 0,
   chosen_topic |-> None, transcript |-> <<>>, current_turn |-> None,
   total_elapsed_seconds |-> 0, max_turns |-> max_turns,
   per_turn_limit |-> default_turn_seconds,
   total_time_limit |-> default_total_seconds, result |-> NoResult,
   custom_topic_allowed |-> FALSE, mode |-> None,
   coinTossCompleted |-> FALSE, coinToss |-> NoCoinToss]

\* DebateSession.next_role
next_role(current_turn) ==
  IF current_turn = PROPONENT THEN OPPONENT ELSE PROPONENT

\* _generate_session_id: a fresh id
NewSessionId == SessionOrder[Cardinality(DOMAIN sessions) + 1]

CanCreate == Cardinality(DOMAIN sessions) < Len(SessionOrder)

\* A fresh object identity for a Participant of session sid.
NewPid(sid) == <<sid, Cardinality({p \in DOMAIN parts : p[1] = sid}) + 1>>

\* with self._lock: the RLock is free or already held by the thread
CanLock(t) == lock \in {None, t}

----------------------------------------------------------------------------
(* utils/timers.py: TimerManager, every method under its own RLock. The     *)
(* methods are functions of the manager's state M: its two tables and the  *)
(* threading.Timer objects that are running.                               *)

TimerManager ==
  [turn |-> turn_timers, total |-> total_timers, threads |-> timer_threads]

\* the manager's state after a method
SetTimerManager(M) ==
  /\ turn_timers' = M.turn
  /\ total_timers' = M.total
  /\ timer_threads' = M.threads

\* the table entry (timer, time.time(), seconds); the Timer object is known
\* by its kind, its session id and its entry
NewTimer(seconds) == [started_at |-> now, seconds |-> seconds]

TimerObject(kind, sid, entry) ==
  [kind |-> kind, sid |-> sid, started_at |-> entry.started_at,
   seconds |-> entry.seconds]

\* a faulty variant of cancel_turn_timer: the entry is popped and the Timer
\* is left running
cancel_turn_timer_leaving_timer(M, sid) ==
  IF sid \in DOMAIN M.turn THEN [M EXCEPT !.turn = Drop(@, sid)] ELSE M

cancel_turn_timer(M, sid) ==
  IF sid \in DOMAIN M.turn
  THEN [M EXCEPT !.turn = Drop(@, sid),
                 !.threads = @ \ {TimerObject("turn", sid, M.turn[sid])}]
  ELSE M

\* a faulty variant of start_turn_timer: the prior timer is left running
start_turn_timer_keeping_prior(M, sid, seconds) ==
  LET entry == NewTimer(seconds)
  IN [M EXCEPT !.turn = Put(@, sid, entry),
               !.threads = @ \cup {TimerObject("turn", sid, entry)}]

start_turn_timer(M, sid, seconds) ==
  LET C == cancel_turn_timer(M, sid)
      entry == NewTimer(seconds)
  IN [C EXCEPT !.turn = Put(@, sid, entry),
               !.threads = @ \cup {TimerObject("turn", sid, entry)}]

\* a faulty variant of cancel_total_timer: it looks in the turn table
cancel_total_timer_in_turn_table(M, sid) ==
  IF sid \in DOMAIN M.turn
  THEN [M EXCEPT !.turn = Drop(@, sid),
                 !.threads = @ \ {TimerObject("turn", sid, M.turn[sid])}]
  ELSE M

cancel_total_timer(M, sid) ==
  IF sid \in DOMAIN M.total
  THEN [M EXCEPT !.total = Drop(@, sid),
                 !.threads = @ \ {TimerObject("total", sid, M.total[sid])}]
  ELSE M

start_total_timer(M, sid, seconds) ==
  LET C == cancel_total_timer(M, sid)
      entry == NewTimer(seconds)
  IN [C EXCEPT !.total = Put(@, sid, entry),
               !.threads = @ \cup {TimerObject("total", sid, entry)}]

\* the value consume_turn_time returns
consume_elapsed(M, sid) ==
  IF sid \notin DOMAIN M.turn THEN 0 ELSE now - M.turn[sid].started_at

\* the manager consume_turn_time leaves
consume_turn_time(M, sid) ==
  IF sid \notin DOMAIN M.turn THEN M
  ELSE [M EXCEPT !.turn = Drop(@, sid),
                 !.threads = @ \ {TimerObject("turn", sid, M.turn[sid])}]

\* the running Timer objects of a kind for a session id
Scheduled(kind, sid) ==
  {th \in timer_threads : th.kind = kind /\ th.sid = sid}

----------------------------------------------------------------------------
(* Threads *)

Loc0 ==
  [sid |-> None, sock |-> None, role |-> None, topic |-> None,
   message |-> None, elapsed |-> 0, arg |-> None, tmp |-> None,
   result |-> None, p1 |-> None, p2 |-> None, out |-> None]

\* the thread moves to label l with locals v
Go(t, l, v) ==
  /\ pc' = [pc EXCEPT ![t] = l]
  /\ loc' = [loc EXCEPT ![t] = v]

\* the handler ends (it returns a response, emits its last event or raises;
\* out names which) and the thread is free for the next request
Done(t, out) == Go(t, "idle", Loc0)

\* the handler is about to emit session:error with the message
Reject(t, message) == Go(t, "error", [Loc0 EXCEPT !.out = message])

Idle(t) == pc[t] = "idle"

\* emit("session:error", {"message": ...}); return
EmitError(t) ==
  /\ pc[t] = "error"
  /\ Done(t, loc[t].out)
  /\ UNCHANGED <<registryVars, lock, socket_participants, timerVars, taskVars,
                 now, judge_runs>>

\* a REST route has its answer and is about to return it
Respond(t, code) == Go(t, "respond", [Loc0 EXCEPT !.out = code])

\* return jsonify(...), code
SendResponse(t) ==
  /\ pc[t] = "respond"
  /\ Done(t, loc[t].out)
  /\ UNCHANGED <<registryVars, lock, socket_participants, timerVars, taskVars,
                 now, judge_runs>>

\* name or "Host"
OrDefault(name, default) == IF name = "" THEN default ELSE name

----------------------------------------------------------------------------
(* Time and the timer threads *)

Tick ==
  /\ now < MaxTime
  /\ now' = now + 1
  /\ UNCHANGED <<registryVars, lock, socket_participants, timerVars, taskVars,
                 judge_runs, pc, loc>>

Expired(timer) == now >= timer.started_at + timer.seconds

\* threading.Timer fires _fire -> _timeout: the handler is queued as a
\* background task (websocket.py:187-188)
TurnTimerFire(sid) ==
  /\ turn_tasks[sid] < MaxTasks
  /\ \E th \in Scheduled("turn", sid) :
       /\ Expired(th)
       /\ timer_threads' = timer_threads \ {th}
  /\ turn_tasks' = [turn_tasks EXCEPT ![sid] = @ + 1]
  /\ UNCHANGED <<registryVars, lock, socket_participants, turn_timers,
                 total_timers, total_tasks, now, judge_runs, pc, loc>>

\* websocket.py:202-203
TotalTimerFire(sid) ==
  /\ total_tasks[sid] < MaxTasks
  /\ \E th \in Scheduled("total", sid) :
       /\ Expired(th)
       /\ timer_threads' = timer_threads \ {th}
  /\ total_tasks' = [total_tasks EXCEPT ![sid] = @ + 1]
  /\ UNCHANGED <<registryVars, lock, socket_participants, turn_timers,
                 total_timers, turn_tasks, now, judge_runs, pc, loc>>

\* _start_turn_timer (websocket.py:181-191), the last step of its callers
StartTurnTimer(t) ==
  /\ pc[t] = "stt"
  /\ CanLock(t)
  /\ IF loc[t].sid \in DOMAIN sessions
     THEN SetTimerManager(start_turn_timer(TimerManager, loc[t].sid,
                                           sessions[loc[t].sid].per_turn_limit))
     ELSE UNCHANGED timerVars
  /\ Done(t, loc[t].out)
  /\ UNCHANGED <<registryVars, lock, socket_participants, taskVars, now,
                 judge_runs>>

----------------------------------------------------------------------------
(* SessionRegistry: the operations that hold the lock for their whole body *)

set_topics(S, sid, topics) ==
  [S EXCEPT ![sid].topic_options = topics, ![sid].status = VETO]

\* set_topics(..., refreshed=...) as api.py calls it: the refresh counter,
\* which the session.py at hand does not hold, goes up when refreshed
count_refresh(S, sid, refreshed) ==
  [S EXCEPT ![sid].topic_refreshes = IF refreshed THEN @ + 1 ELSE @]

\* a faulty variant of complete_session: every session is completed
complete_session_of_all(S, sid, result) ==
  [s \in DOMAIN S |-> [S[s] EXCEPT !.result = result, !.status = FINISHED]]

complete_session(S, sid, result) ==
  [S EXCEPT ![sid].result = result, ![sid].status = FINISHED]

\* a faulty variant of resolve_coin_toss: the status is not compared
resolve_coin_toss_from_any_status(S, sid) ==
  [S EXCEPT ![sid].status = DEBATING,
            ![sid].coinTossCompleted = TRUE,
            ![sid].current_turn = PROPONENT]

resolve_coin_toss(S, sid) ==
  IF S[sid].status = COIN_TOSS
  THEN [S EXCEPT ![sid].status = DEBATING,
                 ![sid].coinTossCompleted = TRUE,
                 ![sid].current_turn = PROPONENT]
  ELSE S

\* POST /sessions/create -> create_invite_session
CreateInvite(t, name) ==
  /\ Idle(t) /\ CanLock(t) /\ CanCreate
  /\ LET sid == NewSessionId
         pid == NewPid(sid)
     IN /\ parts' = Put(parts, pid,
                        NewParticipant(sid, OrDefault(name, "Host"), PROPONENT))
        /\ sessions' = Put(sessions, sid,
             [NewSession(sid) EXCEPT !.custom_topic_allowed = TRUE,
                                     !.mode = "invite",
                                     !.participants = Put(<<>>, PROPONENT, pid),
                                     !.current_turn = PROPONENT])
  /\ Respond(t, "201")
  /\ UNCHANGED <<waiting_random, lock, socket_participants, timerVars,
                 taskVars, now, judge_runs>>

\* a faulty variant of the scan: the code is not compared
FindFirstSession(code) ==
  IF sessions = <<>> THEN None ELSE SessionOrder[1]

\* the first session, in dict order, with the invite code
FindByCode(code) ==
  LET hits == {i \in DOMAIN SessionOrder :
                 /\ SessionOrder[i] \in DOMAIN sessions
                 /\ sessions[SessionOrder[i]].invite_code = code}
  IN IF hits = {} THEN None
     ELSE SessionOrder[CHOOSE i \in hits : \A j \in hits : i <= j]

\* POST /sessions/join/invite (api.py:86-99) -> join_invite_session
JoinInvite(t, code, name) ==
  /\ Idle(t) /\ CanLock(t)
  /\ LET sid == FindByCode(Upper(code))
     IN IF code = ""
        THEN /\ Respond(t, "400")
             /\ UNCHANGED registryVars
        ELSE IF sid = None
        THEN /\ Respond(t, "404")
             /\ UNCHANGED registryVars
        ELSE IF OPPONENT \in DOMAIN sessions[sid].participants
        THEN /\ Respond(t, "409")
             /\ UNCHANGED registryVars
        ELSE LET pid == NewPid(sid)
             IN /\ parts' = Put(parts, pid,
                     NewParticipant(sid, OrDefault(name, "Guest"), OPPONENT))
                /\ sessions' =
                     [sessions EXCEPT
                        ![sid].participants = Put(@, OPPONENT, pid),
                        ![sid].status = VETO,
                        ![sid].mode = "invite"]
                /\ UNCHANGED waiting_random
                /\ Respond(t, "200")
  /\ UNCHANGED <<lock, socket_participants, timerVars, taskVars, now,
                 judge_runs>>

\* a faulty variant of join_random_match: the waiting session is never
\* filled, every caller gets a session of its own
JoinRandomNeverFilling(t, name) ==
  /\ Idle(t) /\ CanLock(t) /\ CanCreate
  /\ LET sid == NewSessionId
         pid == NewPid(sid)
     IN /\ parts' = Put(parts, pid,
             NewParticipant(sid, OrDefault(name, "Player"), PROPONENT))
        /\ sessions' = Put(sessions, sid,
             [NewSession(sid) EXCEPT !.mode = "random",
                                     !.participants = Put(<<>>, PROPONENT, pid),
                                     !.current_turn = PROPONENT])
        /\ waiting_random' = sid
        /\ Respond(t, "202")
  /\ UNCHANGED <<lock, socket_participants, timerVars, taskVars, now,
                 judge_runs>>

\* POST /sessions/join/random (api.py:77-83) -> join_random_match
JoinRandom(t, name) ==
  /\ Idle(t) /\ CanLock(t)
  /\ IF waiting_random # None /\ waiting_random \in DOMAIN sessions
     THEN LET sid == waiting_random
              pid == NewPid(sid)
          IN /\ waiting_random' = None
             /\ parts' = Put(parts, pid,
                  NewParticipant(sid, OrDefault(name, "Opponent"), OPPONENT))
             /\ sessions' =
                  [sessions EXCEPT
                     ![sid].participants = Put(@, OPPONENT, pid),
                     ![sid].status = VETO,
                     ![sid].mode = "random"]
             /\ Respond(t, IF Cardinality(DOMAIN sessions'[sid].participants) = 2
                           THEN "200" ELSE "202")
     ELSE /\ CanCreate
          /\ LET sid == NewSessionId
                 pid == NewPid(sid)
             IN /\ parts' = Put(parts, pid,
                     NewParticipant(sid, OrDefault(name, "Player"), PROPONENT))
                /\ sessions' = Put(sessions, sid,
                     [NewSession(sid) EXCEPT
                        !.mode = "random",
                        !.participants = Put(<<>>, PROPONENT, pid),
                        !.current_turn = PROPONENT])
                /\ waiting_random' = sid
                /\ Respond(t, "202")
  /\ UNCHANGED <<lock, socket_participants, timerVars, taskVars, now,
                 judge_runs>>

----------------------------------------------------------------------------
(* GET /topics/<id> (api.py:111-142) *)

\* the route up to the call of gemini.generate_topics
GetTopics(t, sid, wants_refresh) ==
  /\ Idle(t) /\ CanLock(t)
  /\ IF sid \notin DOMAIN sessions THEN Respond(t, "404")
     ELSE IF wants_refresh /\ sessions[sid].topic_refreshes >= topic_refresh_limit
     THEN Respond(t, "429")
     ELSE IF sessions[sid].topic_options # <<>> /\ ~wants_refresh
     THEN Respond(t, "200")
     ELSE Go(t, "gt_set", [Loc0 EXCEPT !.sid = sid, !.tmp = wants_refresh])
  /\ UNCHANGED <<registryVars, lock, socket_participants, timerVars, taskVars,
                 now, judge_runs>>

\* generate_topics has answered: set_topics under the lock
GetTopicsSet(t, topics) ==
  /\ pc[t] = "gt_set" /\ CanLock(t)
  /\ sessions' = count_refresh(set_topics(sessions, loc[t].sid, topics),
                              loc[t].sid, loc[t].tmp)
  /\ Respond(t, "200")
  /\ UNCHANGED <<parts, waiting_random, lock, socket_participants, timerVars,
                 taskVars, now, judge_runs>>

----------------------------------------------------------------------------
(* SessionRegistry.select_topic (session.py:207-248). The lock is held from *)
(* the first step to the last; the steps between are the writes of the     *)
(* role swap, which handlers that read the session without the lock see.   *)

\* lines 208-224: chosen_topic, status, coinTossCompleted, the two slots
\* read, the coin flipped
SelectTopicBegin(t, coin) ==
  /\ pc[t] = "st_begin" /\ CanLock(t)
  /\ LET sid == loc[t].sid
         ps == sessions[sid].participants
         pro == IF PROPONENT \in DOMAIN ps THEN ps[PROPONENT] ELSE None
         con == IF OPPONENT \in DOMAIN ps THEN ps[OPPONENT] ELSE None
     IN /\ sessions' = [sessions EXCEPT ![sid].chosen_topic = loc[t].topic,
                                        ![sid].status = COIN_TOSS,
                                        ![sid].coinTossCompleted = FALSE]
        /\ lock' = t
        /\ IF pro # None /\ con # None /\ coin = 0
           THEN Go(t, "st_role1", [loc[t] EXCEPT !.p1 = pro, !.p2 = con])
           ELSE Go(t, "st_keep", [loc[t] EXCEPT !.p1 = pro, !.p2 = con])
  /\ UNCHANGED <<parts, waiting_random, socket_participants, timerVars,
                 taskVars, now, judge_runs>>

\* lines 225-226 and 238-241: each participant present keeps its slot's role
SelectTopicKeep(t) ==
  /\ pc[t] = "st_keep"
  /\ parts' = [p \in DOMAIN parts |->
                 IF p = loc[t].p1 THEN [parts[p] EXCEPT !.role = PROPONENT]
                 ELSE IF p = loc[t].p2 THEN [parts[p] EXCEPT !.role = OPPONENT]
                 ELSE parts[p]]
  /\ Go(t, "st_end", loc[t])
  /\ UNCHANGED <<sessions, waiting_random, lock, socket_participants,
                 timerVars, taskVars, now, judge_runs>>

\* line 228
SelectTopicRole1(t) ==
  /\ pc[t] = "st_role1"
  /\ parts' = [parts EXCEPT ![loc[t].p1].role = OPPONENT]
  /\ Go(t, "st_role2", loc[t])
  /\ UNCHANGED <<sessions, waiting_random, lock, socket_participants,
                 timerVars, taskVars, now, judge_runs>>

\* line 229
SelectTopicRole2(t) ==
  /\ pc[t] = "st_role2"
  /\ parts' = [parts EXCEPT ![loc[t].p2].role = PROPONENT]
  /\ Go(t, "st_slot1", loc[t])
  /\ UNCHANGED <<sessions, waiting_random, lock, socket_participants,
                 timerVars, taskVars, now, judge_runs>>

\* line 230
SelectTopicSlot1(t) ==
  /\ pc[t] = "st_slot1"
  /\ sessions' = [sessions EXCEPT
                    ![loc[t].sid].participants = Put(@, PROPONENT, loc[t].p2)]
  /\ Go(t, "st_slot2", loc[t])
  /\ UNCHANGED <<parts, waiting_random, lock, socket_participants, timerVars,
                 taskVars, now, judge_runs>>

\* a faulty variant of line 231: the Opponent slot is not written
SelectTopicSlot2Skipped(t) ==
  /\ pc[t] = "st_slot2"
  /\ Go(t, "st_end", loc[t])
  /\ UNCHANGED <<registryVars, lock, socket_participants, timerVars, taskVars,
                 now, judge_runs>>

\* line 231
SelectTopicSlot2(t) ==
  /\ pc[t] = "st_slot2"
  /\ sessions' = [sessions EXCEPT
                    ![loc[t].sid].participants = Put(@, OPPONENT, loc[t].p1)]
  /\ Go(t, "st_end", loc[t])
  /\ UNCHANGED <<parts, waiting_random, lock, socket_participants, timerVars,
                 taskVars, now, judge_runs>>

\* the name select_topic records for a slot: assigned.name, or None
SlotName(sid, role) ==
  IF role \in DOMAIN sessions[sid].participants
  THEN parts[sessions[sid].participants[role]].name
  ELSE None

\* lines 232-248: the coinToss metadata, current_turn, the lock released
SelectTopicEnd(t) ==
  /\ pc[t] = "st_end"
  /\ LET sid == loc[t].sid
     IN sessions' = [sessions EXCEPT
                       ![sid].coinToss = [pro |-> SlotName(sid, PROPONENT),
                                          con |-> SlotName(sid, OPPONENT)],
                       ![sid].current_turn = PROPONENT]
  /\ lock' = None
  /\ Done(t, "topic:selected")
  /\ UNCHANGED <<parts, waiting_random, socket_participants, timerVars,
                 taskVars, now, judge_runs>>

\* POST /sessions/<id>/topic (api.py:145-162) up to registry.select_topic
SelectTopicRoute(t, sid, topic, custom) ==
  /\ Idle(t) /\ CanLock(t)
  /\ IF topic = "" THEN Done(t, "400")
     ELSE IF sid \notin DOMAIN sessions THEN Done(t, "400")
     ELSE IF ~(sessions[sid].custom_topic_allowed /\ custom)
             /\ topic \notin Range(sessions[sid].topic_options)
     THEN Done(t, "400")
     ELSE Go(t, "st_begin", [Loc0 EXCEPT !.sid = sid, !.topic = topic])
  /\ UNCHANGED <<registryVars, lock, socket_participants, timerVars, taskVars,
                 now, judge_runs>>

----------------------------------------------------------------------------
(* Socket.IO handlers (websocket.py) *)

HasMapping(sock) == sock \in DOMAIN socket_participants

\* join_session, lines 43-59
JoinSession(t, sock, sid, role) ==
  /\ Idle(t) /\ CanLock(t)
  /\ IF sid = "" \/ role = ""
     THEN /\ Done(t, "Session and role required")
          /\ UNCHANGED <<parts, socket_participants>>
     ELSE IF \/ sid \notin DOMAIN sessions
             \/ role \notin Roles
             \/ role \notin DOMAIN sessions[sid].participants
     THEN /\ Done(t, "Unable to join session")
          /\ UNCHANGED <<parts, socket_participants>>
     ELSE /\ socket_participants' =
               Put(socket_participants, sock, [session_id |-> sid, role |-> role])
          /\ parts' = [parts EXCEPT
                         ![sessions[sid].participants[role]].socket_id = sock]
          /\ Go(t, "js_check", [Loc0 EXCEPT !.sid = sid, !.role = role,
                                            !.out = "session:update"])
  /\ UNCHANGED <<sessions, waiting_random, lock, timerVars, taskVars, now,
                 judge_runs>>

\* join_session, lines 60-61
JoinSessionCheck(t) ==
  /\ pc[t] = "js_check"
  /\ LET session == sessions[loc[t].sid]
     IN IF session.status = DEBATING /\ session.current_turn = loc[t].role
        THEN Go(t, "stt", loc[t])
        ELSE Done(t, loc[t].out)
  /\ UNCHANGED <<registryVars, lock, socket_participants, timerVars, taskVars,
                 now, judge_runs>>

\* handle_disconnect: the mapping is dropped (Participant.connected is not
\* modelled)
Disconnect(t, sock) ==
  /\ Idle(t)
  /\ HasMapping(sock)
  /\ socket_participants' = Drop(socket_participants, sock)
  /\ Done(t, "disconnected")
  /\ UNCHANGED <<registryVars, lock, timerVars, taskVars, now, judge_runs>>

\* the options no participant has vetoed (lines 84-88)
Remaining(sid) ==
  LET vetoed == {parts[p].vetoed_topic : p \in Range(sessions[sid].participants)}
      options == sessions[sid].topic_options
  IN SelectSeq(options, LAMBDA o : o \notin vetoed)

\* veto_topic, lines 64-83: the veto recorded
VetoTopic(t, sock, topic) ==
  /\ Idle(t) /\ CanLock(t)
  /\ IF ~HasMapping(sock)
     THEN Done(t, "Join the session first") /\ UNCHANGED parts
     ELSE LET sid == socket_participants[sock].session_id
              role == socket_participants[sock].role
          IN IF topic = ""
             THEN Done(t, "Topic required") /\ UNCHANGED parts
             ELSE IF topic \notin Range(sessions[sid].topic_options)
             THEN Done(t, "Invalid topic") /\ UNCHANGED parts
             ELSE /\ parts' = [parts EXCEPT
                       ![sessions[sid].participants[role]].vetoed_topic = topic]
                  /\ Go(t, "vt_remaining", [Loc0 EXCEPT !.sid = sid])
  /\ UNCHANGED <<sessions, waiting_random, lock, socket_participants,
                 timerVars, taskVars, now, judge_runs>>

\* veto_topic, lines 84-95: one option left selects it
VetoTopicRemaining(t) ==
  /\ pc[t] = "vt_remaining"
  /\ LET remaining == Remaining(loc[t].sid)
     IN IF Len(remaining) = 1
        THEN Go(t, "st_begin", [loc[t] EXCEPT !.topic = remaining[1]])
        ELSE Done(t, "topic:vetoed")
  /\ UNCHANGED <<registryVars, lock, socket_participants, timerVars, taskVars,
                 now, judge_runs>>

\* set_custom_topic, lines 98-108
SetCustomTopic(t, sock, topic) ==
  /\ Idle(t)
  /\ IF ~HasMapping(sock) THEN Done(t, "Join the session first")
     ELSE IF topic = "" THEN Done(t, "Topic required")
     ELSE Go(t, "st_begin",
             [Loc0 EXCEPT !.sid = socket_participants[sock].session_id,
                          !.topic = topic])
  /\ UNCHANGED <<registryVars, lock, socket_participants, timerVars, taskVars,
                 now, judge_runs>>

----------------------------------------------------------------------------
(* send_message (websocket.py:112-152) and DebateSession.record_argument *)

\* lines 114-129: the mapping, the validation, the lookup, the status check
SendMessage(t, sock, message) ==
  /\ Idle(t) /\ CanLock(t)
  /\ HasMapping(sock) =>
       Len(sessions[socket_participants[sock].session_id].transcript) < MaxArgs
  /\ IF ~HasMapping(sock) THEN Reject(t, "Join the session first")
     ELSE LET sid == socket_participants[sock].session_id
              role == socket_participants[sock].role
          IN IF validate_argument_length(message) # "ok"
             THEN Reject(t, validate_argument_length(message))
             ELSE IF sid \notin DOMAIN sessions THEN Reject(t, "Session not found")
             ELSE IF sessions[sid].status # DEBATING
             THEN Reject(t, "Debate not started")
             ELSE Go(t, "sm_turn", [Loc0 EXCEPT !.sid = sid, !.role = role,
                                                !.message = message])
  /\ UNCHANGED <<registryVars, lock, socket_participants, timerVars, taskVars,
                 now, judge_runs>>

\* a faulty variant of lines 130-132: the turn is not compared
SendMessageTurnUnchecked(t) ==
  /\ pc[t] = "sm_turn"
  /\ Go(t, "sm_consume", loc[t])
  /\ UNCHANGED <<registryVars, lock, socket_participants, timerVars, taskVars,
                 now, judge_runs>>

\* lines 130-132
SendMessageTurn(t) ==
  /\ pc[t] = "sm_turn"
  /\ IF sessions[loc[t].sid].current_turn # loc[t].role
     THEN Reject(t, "Not your turn")
     ELSE Go(t, "sm_consume", loc[t])
  /\ UNCHANGED <<registryVars, lock, socket_participants, timerVars, taskVars,
                 now, judge_runs>>

\* line 133
SendMessageConsume(t) ==
  /\ pc[t] = "sm_consume"
  /\ SetTimerManager(consume_turn_time(TimerManager, loc[t].sid))
  /\ Go(t, "sm_arg",
        [loc[t] EXCEPT !.elapsed = consume_elapsed(TimerManager, loc[t].sid)])
  /\ UNCHANGED <<registryVars, lock, socket_participants, taskVars, now,
                 judge_runs>>

\* record_argument, lines 97-103: the Argument built
RecordArgumentNew(t) ==
  /\ pc[t] = "sm_arg"
  /\ LET session == sessions[loc[t].sid]
         role == loc[t].role
     IN Go(t, "sm_append",
           [loc[t] EXCEPT !.arg =
              [speaker_role |-> role,
               speaker_name |-> parts[session.participants[role]].name,
               turn_index |-> Len(session.transcript),
               time_taken_seconds |-> loc[t].elapsed]])
  /\ UNCHANGED <<registryVars, lock, socket_participants, timerVars, taskVars,
                 now, judge_runs>>

\* record_argument, line 104
RecordArgumentAppend(t) ==
  /\ pc[t] = "sm_append"
  /\ sessions' = [sessions EXCEPT
                    ![loc[t].sid].transcript = Append(@, loc[t].arg)]
  /\ Go(t, "sm_next", loc[t])
  /\ UNCHANGED <<parts, waiting_random, lock, socket_participants, timerVars,
                 taskVars, now, judge_runs>>

\* record_argument, line 105: next_role() evaluated
RecordArgumentNextRole(t) ==
  /\ pc[t] = "sm_next"
  /\ Go(t, "sm_setturn",
        [loc[t] EXCEPT !.tmp = next_role(sessions[loc[t].sid].current_turn)])
  /\ UNCHANGED <<registryVars, lock, socket_participants, timerVars, taskVars,
                 now, judge_runs>>

\* record_argument, line 105: current_turn assigned
RecordArgumentSetTurn(t) ==
  /\ pc[t] = "sm_setturn"
  /\ sessions' = [sessions EXCEPT ![loc[t].sid].current_turn = loc[t].tmp]
  /\ Go(t, "sm_spent_r", [loc[t] EXCEPT !.tmp = None])
  /\ UNCHANGED <<parts, waiting_random, lock, socket_participants, timerVars,
                 taskVars, now, judge_runs>>

\* line 135: the participant and its time_spent_seconds read
SendMessageSpentRead(t) ==
  /\ pc[t] = "sm_spent_r"
  /\ LET p == sessions[loc[t].sid].participants[loc[t].role]
     IN Go(t, "sm_spent_w",
           [loc[t] EXCEPT !.p1 = p, !.tmp = parts[p].time_spent_seconds])
  /\ UNCHANGED <<registryVars, lock, socket_participants, timerVars, taskVars,
                 now, judge_runs>>

\* line 135: time_spent_seconds written
SendMessageSpentWrite(t) ==
  /\ pc[t] = "sm_spent_w"
  /\ parts' = [parts EXCEPT
                 ![loc[t].p1].time_spent_seconds = loc[t].tmp + loc[t].elapsed]
  /\ Go(t, "sm_total_r", [loc[t] EXCEPT !.p1 = None, !.tmp = None])
  /\ UNCHANGED <<sessions, waiting_random, lock, socket_participants,
                 timerVars, taskVars, now, judge_runs>>

\* line 136: total_elapsed_seconds read
SendMessageTotalRead(t) ==
  /\ pc[t] = "sm_total_r"
  /\ Go(t, "sm_total_w",
        [loc[t] EXCEPT !.tmp = sessions[loc[t].sid].total_elapsed_seconds])
  /\ UNCHANGED <<registryVars, lock, socket_participants, timerVars, taskVars,
                 now, judge_runs>>

\* line 136: total_elapsed_seconds written
SendMessageTotalWrite(t) ==
  /\ pc[t] = "sm_total_w"
  /\ sessions' = [sessions EXCEPT
        ![loc[t].sid].total_elapsed_seconds = loc[t].tmp + loc[t].elapsed]
  /\ Go(t, "sm_len", [Loc0 EXCEPT !.sid = loc[t].sid])
  /\ UNCHANGED <<parts, waiting_random, lock, socket_participants, timerVars,
                 taskVars, now, judge_runs>>

\* lines 149-152
SendMessageLen(t) ==
  /\ pc[t] = "sm_len"
  /\ LET session == sessions[loc[t].sid]
     IN IF Len(session.transcript) >= session.max_turns
        THEN Go(t, "fd_cancel", [loc[t] EXCEPT !.out = "message:new"])
        ELSE Go(t, "stt", [loc[t] EXCEPT !.out = "message:new"])
  /\ UNCHANGED <<registryVars, lock, socket_participants, timerVars, taskVars,
                 now, judge_runs>>

----------------------------------------------------------------------------
(* The judging pipeline as the handlers see it (judge.py:24-47): Intake     *)
(* raises when a role is missing, the scoring oracle may raise, and a      *)
(* pipeline that completes delivers a SessionResult.                       *)

JudgeOutcomes == {"ok", "GeminiError"}

\* judge.judge_session(session): the thread's next label and locals
Judge(t, outcome, next) ==
  LET sid == loc[t].sid
  IN /\ judge_runs[sid] < MaxJudgeRuns
     /\ IF ~ensure_roles_present(DOMAIN sessions[sid].participants)
        THEN Done(t, "ValidationError") /\ UNCHANGED judge_runs
        ELSE IF outcome # "ok"
        THEN Done(t, outcome) /\ UNCHANGED judge_runs
        ELSE /\ judge_runs' = [judge_runs EXCEPT ![sid] = @ + 1]
             /\ Go(t, next, [loc[t] EXCEPT !.result =
                               [run |-> judge_runs[sid] + 1,
                                turns |-> Len(sessions[sid].transcript)]])

----------------------------------------------------------------------------
(* _finish_debate (websocket.py:231-241) and its callers *)

\* lines 232-233
FinishDebateCancel(t) ==
  /\ pc[t] = "fd_cancel"
  /\ SetTimerManager(cancel_total_timer(
                       cancel_turn_timer(TimerManager, loc[t].sid), loc[t].sid))
  /\ Go(t, "fd_check", loc[t])
  /\ UNCHANGED <<registryVars, lock, socket_participants, taskVars, now,
                 judge_runs>>

\* lines 234-238
FinishDebateCheck(t) ==
  /\ pc[t] = "fd_check" /\ CanLock(t)
  /\ IF loc[t].sid \notin DOMAIN sessions THEN Done(t, "KeyError")
     ELSE IF sessions[loc[t].sid].status # FINISHED
     THEN Go(t, "fd_judge", loc[t])
     ELSE Done(t, "debate:finished")
  /\ UNCHANGED <<registryVars, lock, socket_participants, timerVars, taskVars,
                 now, judge_runs>>

\* line 239
FinishDebateJudge(t, outcome) ==
  /\ pc[t] = "fd_judge"
  /\ Judge(t, outcome, "fd_complete")
  /\ UNCHANGED <<registryVars, lock, socket_participants, timerVars, taskVars,
                 now>>

\* lines 240-241
FinishDebateComplete(t) ==
  /\ pc[t] = "fd_complete" /\ CanLock(t)
  /\ sessions' = complete_session(sessions, loc[t].sid, loc[t].result)
  /\ Done(t, "debate:finished")
  /\ UNCHANGED <<parts, waiting_random, lock, socket_participants, timerVars,
                 taskVars, now, judge_runs>>

\* end_debate, lines 155-160
EndDebate(t, sock) ==
  /\ Idle(t)
  /\ IF ~HasMapping(sock) THEN Done(t, "Join the session first")
     ELSE Go(t, "fd_cancel",
             [Loc0 EXCEPT !.sid = socket_participants[sock].session_id])
  /\ UNCHANGED <<registryVars, lock, socket_participants, timerVars, taskVars,
                 now, judge_runs>>

\* _handle_total_timeout, lines 226-228: a queued background task starts
HandleTotalTimeout(t, sid) ==
  /\ Idle(t)
  /\ total_tasks[sid] > 0
  /\ total_tasks' = [total_tasks EXCEPT ![sid] = @ - 1]
  /\ Go(t, "fd_cancel", [Loc0 EXCEPT !.sid = sid])
  /\ UNCHANGED <<registryVars, lock, socket_participants, timerVars,
                 turn_tasks, now, judge_runs>>

----------------------------------------------------------------------------
(* POST /sessions/<id>/finish and GET /export/<id> (api.py:165-193) *)

\* finish_session, lines 167-171
FinishSession(t, sid) ==
  /\ Idle(t) /\ CanLock(t)
  /\ IF sid \notin DOMAIN sessions THEN Done(t, "404")
     ELSE IF sessions[sid].status # FINISHED
     THEN Go(t, "fs_judge", [Loc0 EXCEPT !.sid = sid])
     ELSE Done(t, "200")
  /\ UNCHANGED <<registryVars, lock, socket_participants, timerVars, taskVars,
                 now, judge_runs>>

\* line 172
FinishSessionJudge(t, outcome) ==
  /\ pc[t] = "fs_judge"
  /\ Judge(t, outcome, "fs_complete")
  /\ UNCHANGED <<registryVars, lock, socket_participants, timerVars, taskVars,
                 now>>

\* lines 173-175
FinishSessionComplete(t) ==
  /\ pc[t] = "fs_complete" /\ CanLock(t)
  /\ sessions' = complete_session(sessions, loc[t].sid, loc[t].result)
  /\ Done(t, "200")
  /\ UNCHANGED <<parts, waiting_random, lock, socket_participants, timerVars,
                 taskVars, now, judge_runs>>

\* export_pdf, lines 180-184
ExportPdf(t, sid) ==
  /\ Idle(t) /\ CanLock(t)
  /\ IF sid \notin DOMAIN sessions THEN Done(t, "404")
     ELSE IF sessions[sid].result = NoResult
     THEN Go(t, "ex_judge", [Loc0 EXCEPT !.sid = sid])
     ELSE Done(t, "pdf")
  /\ UNCHANGED <<registryVars, lock, socket_participants, timerVars, taskVars,
                 now, judge_runs>>

\* line 185
ExportPdfJudge(t, outcome) ==
  /\ pc[t] = "ex_judge"
  /\ Judge(t, outcome, "ex_complete")
  /\ UNCHANGED <<registryVars, lock, socket_participants, timerVars, taskVars,
                 now>>

\* lines 186-193
ExportPdfComplete(t) ==
  /\ pc[t] = "ex_complete" /\ CanLock(t)
  /\ sessions' = complete_session(sessions, loc[t].sid, loc[t].result)
  /\ Done(t, "pdf")
  /\ UNCHANGED <<parts, waiting_random, lock, socket_participants, timerVars,
                 taskVars, now, judge_runs>>

----------------------------------------------------------------------------
(* _handle_turn_timeout (websocket.py:210-223) *)

\* lines 211-217: a queued background task starts and reads current_turn
HandleTurnTimeout(t, sid) ==
  /\ Idle(t) /\ CanLock(t)
  /\ turn_tasks[sid] > 0
  /\ turn_tasks' = [turn_tasks EXCEPT ![sid] = @ - 1]
  /\ IF sid \notin DOMAIN sessions THEN Done(t, "KeyError")
     ELSE IF sessions[sid].current_turn = None THEN Done(t, "no role")
     ELSE Go(t, "tt_spent_r",
             [Loc0 EXCEPT !.sid = sid, !.role = sessions[sid].current_turn])
  /\ UNCHANGED <<registryVars, lock, socket_participants, timerVars,
                 total_tasks, now, judge_runs>>

\* line 219: the participant and its time_spent_seconds read
TurnTimeoutSpentRead(t) ==
  /\ pc[t] = "tt_spent_r"
  /\ LET ps == sessions[loc[t].sid].participants
     IN IF loc[t].role \notin DOMAIN ps THEN Done(t, "KeyError")
        ELSE Go(t, "tt_spent_w",
                [loc[t] EXCEPT !.p1 = ps[loc[t].role],
                               !.tmp = parts[ps[loc[t].role]].time_spent_seconds])
  /\ UNCHANGED <<registryVars, lock, socket_participants, timerVars, taskVars,
                 now, judge_runs>>

\* line 219: time_spent_seconds written
TurnTimeoutSpentWrite(t) ==
  /\ pc[t] = "tt_spent_w"
  /\ parts' = [parts EXCEPT ![loc[t].p1].time_spent_seconds =
                 loc[t].tmp + sessions[loc[t].sid].per_turn_limit]
  /\ Go(t, "tt_total_r", [loc[t] EXCEPT !.p1 = None, !.tmp = None])
  /\ UNCHANGED <<sessions, waiting_random, lock, socket_participants,
                 timerVars, taskVars, now, judge_runs>>

\* line 220: total_elapsed_seconds read
TurnTimeoutTotalRead(t) ==
  /\ pc[t] = "tt_total_r"
  /\ Go(t, "tt_total_w",
        [loc[t] EXCEPT !.tmp = sessions[loc[t].sid].total_elapsed_seconds])
  /\ UNCHANGED <<registryVars, lock, socket_participants, timerVars, taskVars,
                 now, judge_runs>>

\* line 220: total_elapsed_seconds written
TurnTimeoutTotalWrite(t) ==
  /\ pc[t] = "tt_total_w"
  /\ sessions' = [sessions EXCEPT ![loc[t].sid].total_elapsed_seconds =
                    loc[t].tmp + sessions[loc[t].sid].per_turn_limit]
  /\ Go(t, "tt_next", [loc[t] EXCEPT !.tmp = None])
  /\ UNCHANGED <<parts, waiting_random, lock, socket_participants, timerVars,
                 taskVars, now, judge_runs>>

\* line 221: next_role() evaluated
TurnTimeoutNextRole(t) ==
  /\ pc[t] = "tt_next"
  /\ Go(t, "tt_setturn",
        [loc[t] EXCEPT !.tmp = next_role(sessions[loc[t].sid].current_turn)])
  /\ UNCHANGED <<registryVars, lock, socket_participants, timerVars, taskVars,
                 now, judge_runs>>

\* lines 221-223: current_turn assigned, then _start_turn_timer
TurnTimeoutSetTurn(t) ==
  /\ pc[t] = "tt_setturn"
  /\ sessions' = [sessions EXCEPT ![loc[t].sid].current_turn = loc[t].tmp]
  /\ Go(t, "stt", [Loc0 EXCEPT !.sid = loc[t].sid, !.out = "timer:turnExpired"])
  /\ UNCHANGED <<parts, waiting_random, lock, socket_participants, timerVars,
                 taskVars, now, judge_runs>>

----------------------------------------------------------------------------
(* coin_toss_complete (websocket.py:162-178) and _begin_debate (194-207) *)

\* lines 164-174: previous_status read
CoinTossComplete(t, sock) ==
  /\ Idle(t) /\ CanLock(t)
  /\ IF ~HasMapping(sock) THEN Done(t, "Join the session first")
     ELSE LET sid == socket_participants[sock].session_id
          IN IF sid \notin DOMAIN sessions THEN Done(t, "Session not found")
             ELSE Go(t, "ct_resolve",
                     [Loc0 EXCEPT !.sid = sid, !.tmp = sessions[sid].status])
  /\ UNCHANGED <<registryVars, lock, socket_participants, timerVars, taskVars,
                 now, judge_runs>>

\* line 175: resolve_coin_toss under the lock
CoinTossResolve(t) ==
  /\ pc[t] = "ct_resolve" /\ CanLock(t)
  /\ sessions' = resolve_coin_toss(sessions, loc[t].sid)
  /\ Go(t, "ct_check", loc[t])
  /\ UNCHANGED <<parts, waiting_random, lock, socket_participants, timerVars,
                 taskVars, now, judge_runs>>

\* lines 177-178 and 195-200: the debate begins if the status became Debating
CoinTossCheck(t) ==
  /\ pc[t] = "ct_check" /\ CanLock(t)
  /\ IF loc[t].tmp # DEBATING /\ sessions[loc[t].sid].status = DEBATING
     THEN Go(t, "bd_total", [loc[t] EXCEPT !.tmp = None])
     ELSE Done(t, "session:update")
  /\ UNCHANGED <<registryVars, lock, socket_participants, timerVars, taskVars,
                 now, judge_runs>>

\* a faulty variant of _begin_debate: no total timer is started
BeginDebateWithoutTotalTimer(t) ==
  /\ pc[t] = "bd_total"
  /\ Go(t, "stt", [loc[t] EXCEPT !.out = "debate:started"])
  /\ UNCHANGED <<registryVars, lock, socket_participants, timerVars, taskVars,
                 now, judge_runs>>

\* _begin_debate, lines 202-206: the total timer, then _start_turn_timer
BeginDebate(t) ==
  /\ pc[t] = "bd_total"
  /\ SetTimerManager(start_total_timer(TimerManager, loc[t].sid,
                                       sessions[loc[t].sid].total_time_limit))
  /\ Go(t, "stt", [loc[t] EXCEPT !.out = "debate:started"])
  /\ UNCHANGED <<registryVars, lock, socket_participants, taskVars, now,
                 judge_runs>>

----------------------------------------------------------------------------
(* The program *)

Init ==
  /\ sessions = <<>>
  /\ parts = <<>>
  /\ waiting_random = None
  /\ lock = None
  /\ socket_participants = <<>>
  /\ turn_timers = <<>>
  /\ total_timers = <<>>
  /\ timer_threads = {}
  /\ turn_tasks = [s \in SessionIds |-> 0]
  /\ total_tasks = [s \in SessionIds |-> 0]
  /\ now = 0
  /\ judge_runs = [s \in SessionIds |-> 0]
  /\ pc = [t \in Threads |-> "idle"]
  /\ loc = [t \in Threads |-> Loc0]

\* The steps inside send_message, and _start_turn_timer at its end.
SendSteps(t) ==
  \/ EmitError(t)
  \/ SendMessageTurn(t)
  \/ SendMessageConsume(t)
  \/ RecordArgumentNew(t)
  \/ RecordArgumentAppend(t)
  \/ RecordArgumentNextRole(t)
  \/ RecordArgumentSetTurn(t)
  \/ SendMessageSpentRead(t)
  \/ SendMessageSpentWrite(t)
  \/ SendMessageTotalRead(t)
  \/ SendMessageTotalWrite(t)
  \/ SendMessageLen(t)
  \/ StartTurnTimer(t)

\* The steps inside _finish_debate.
FinishSteps(t) ==
  \/ FinishDebateCancel(t)
  \/ FinishDebateCheck(t)
  \/ \E o \in JudgeOutcomes : FinishDebateJudge(t, o)
  \/ FinishDebateComplete(t)

\* The steps inside select_topic.
SelectSteps(t) ==
  \/ \E coin \in {0, 1} : SelectTopicBegin(t, coin)
  \/ SelectTopicKeep(t)
  \/ SelectTopicRole1(t)
  \/ SelectTopicRole2(t)
  \/ SelectTopicSlot1(t)
  \/ SelectTopicSlot2(t)
  \/ SelectTopicEnd(t)

\* The steps inside join_session and coin_toss_complete.
StartSteps(t) ==
  \/ JoinSessionCheck(t)
  \/ CoinTossResolve(t)
  \/ CoinTossCheck(t)
  \/ BeginDebate(t)

\* The steps inside _handle_turn_timeout.
TimeoutSteps(t) ==
  \/ TurnTimeoutSpentRead(t)
  \/ TurnTimeoutSpentWrite(t)
  \/ TurnTimeoutTotalRead(t)
  \/ TurnTimeoutTotalWrite(t)
  \/ TurnTimeoutNextRole(t)
  \/ TurnTimeoutSetTurn(t)

\* The REST finish and export routes.
RestFinish(t) ==
  \/ FinishSession(t, "s1")
  \/ \E o \in JudgeOutcomes : FinishSessionJudge(t, o)
  \/ FinishSessionComplete(t)

\* The life of one invite session: the host creates it, a guest joins with
\* the code, a socket is opened for a role, topics are fetched, the host
\* sets a custom topic, the coin toss is acknowledged, arguments are sent,
\* and the debate is finished over the socket, over REST or by an export.
Requests(t) ==
  \/ sessions = <<>> /\ CreateInvite(t, "Alice")
  \/ \E code \in {"s1", "zz"} : JoinInvite(t, code, "Bob")
  \/ SendResponse(t)
  \/ \E role \in Roles \cup {""} : JoinSession(t, "k1", "s1", role)
  \/ SetCustomTopic(t, "k1", "X")
  \/ CoinTossComplete(t, "k1")
  \/ \E m \in Messages : SendMessage(t, "k1", m)
  \/ EndDebate(t, "k1")
  \/ RestFinish(t)
  \/ ExportPdf(t, "s1")
  \/ \E o \in JudgeOutcomes : ExportPdfJudge(t, o)
  \/ ExportPdfComplete(t)
  \/ \E r \in BOOLEAN : GetTopics(t, "s1", r)
  \/ GetTopicsSet(t, <<"A", "B", "C">>)

\* Every request is handled to its end before the next one starts, and all
\* within the first second: no timer expires.
Next ==
  \/ Requests("t1")
  \/ SendSteps("t1")
  \/ FinishSteps("t1")
  \/ SelectSteps("t1")
  \/ StartSteps("t1")

Spec == Init /\ [][Next]_vars

----------------------------------------------------------------------------
(* A debate under way. The state _begin_debate leaves: Alice created the   *)
(* session, Bob joined with the code, each opened a socket for its role,   *)
(* the custom topic was set without a swap, and the coin toss was          *)
(* acknowledged at time 0.                                                 *)

Alice == <<"s1", 1>>
Bob == <<"s1", 2>>

DebateSession ==
  [NewSession("s1") EXCEPT
     !.custom_topic_allowed = TRUE, !.mode = "invite",
     !.participants = Put(Put(<<>>, PROPONENT, Alice), OPPONENT, Bob),
     !.status = DEBATING, !.chosen_topic = "X", !.current_turn = PROPONENT,
     !.coinTossCompleted = TRUE, !.coinToss = [pro |-> "Alice", con |-> "Bob"]]

DebateStarted ==
  /\ sessions = Put(<<>>, "s1", DebateSession)
  /\ parts = Put(Put(<<>>, Alice,
                     [NewParticipant("s1", "Alice", PROPONENT)
                        EXCEPT !.socket_id = "k1"]),
                 Bob, [NewParticipant("s1", "Bob", OPPONENT)
                         EXCEPT !.socket_id = "k2"])
  /\ waiting_random = None
  /\ lock = None
  /\ socket_participants =
       Put(Put(<<>>, "k1", [session_id |-> "s1", role |-> PROPONENT]),
           "k2", [session_id |-> "s1", role |-> OPPONENT])
  /\ turn_timers = Put(<<>>, "s1", [started_at |-> 0,
                                    seconds |-> default_turn_seconds])
  /\ total_timers = Put(<<>>, "s1", [started_at |-> 0,
                                     seconds |-> default_total_seconds])
  /\ timer_threads = {TimerObject("turn", "s1", turn_timers["s1"]),
                      TimerObject("total", "s1", total_timers["s1"])}
  /\ turn_tasks = [s \in SessionIds |-> 0]
  /\ total_tasks = [s \in SessionIds |-> 0]
  /\ judge_runs = [s \in SessionIds |-> 0]
  /\ pc = [t \in Threads |-> "idle"]
  /\ loc = [t \in Threads |-> Loc0]

InitDebate == DebateStarted /\ now = 0

\* what the clients and the background tasks ask of thread t
DebateRequests(t) ==
  \/ \E sock \in Sockets, m \in Messages : SendMessage(t, sock, m)
  \/ EndDebate(t, "k1")
  \/ RestFinish(t)
  \/ HandleTurnTimeout(t, "s1")
  \/ HandleTotalTimeout(t, "s1")

\* The debate with the clock running and the handlers run one at a time.
NextDebate ==
  \/ Tick
  \/ TurnTimerFire("s1")
  \/ TotalTimerFire("s1")
  \/ DebateRequests("t1")
  \/ SendSteps("t1")
  \/ FinishSteps("t1")
  \/ TimeoutSteps("t1")

SpecDebate == InitDebate /\ [][NextDebate]_vars

----------------------------------------------------------------------------------------------------------------------------------------
(* The same debate with two submissions handled at a time: each thread     *)
(* runs send_message step by step, and the steps of the two interleave.    *)

ValidMessage == [len |-> 3, stripped |-> 3]

NextRace ==
  \E t \in Threads :
    \/ \E sock \in Sockets : SendMessage(t, sock, ValidMessage)
    \/ SendSteps(t)
    \/ FinishSteps(t)

SpecRace == InitDebate /\ [][NextRace]_vars

----------------------------------------------------------------------------
(* The same debate one second later, when the turn timer has expired: one  *)
(* thread handles submissions, the other the background task of the        *)
(* timeout, and their steps interleave.                                    *)

InitTimeout == DebateStarted /\ now = default_turn_seconds

NextTimeout ==
  \/ TurnTimerFire("s1")
  \/ \E sock \in Sockets : SendMessage("t1", sock, ValidMessage)
  \/ SendSteps("t1")
  \/ FinishSteps("t1")
  \/ HandleTurnTimeout("t2", "s1")
  \/ TimeoutSteps("t2")
  \/ StartTurnTimer("t2")

SpecTimeout == InitTimeout /\ [][NextTimeout]_vars

----------------------------------------------------------------------------
(* The debate's end with two handlers at a time: the clients end the       *)
(* debate over the socket, over REST and by an export while the total      *)
(* timer expires.                                                          *)

InitFinish == DebateStarted /\ now = default_total_seconds

FinishRequests(t) ==
  \/ EndDebate(t, "k1")
  \/ HandleTotalTimeout(t, "s1")
  \/ RestFinish(t)
  \/ ExportPdf(t, "s1")
  \/ \E o \in JudgeOutcomes : ExportPdfJudge(t, o)
  \/ ExportPdfComplete(t)

NextFinish ==
  \/ TotalTimerFire("s1")
  \/ \E t \in Threads : FinishRequests(t) \/ FinishSteps(t)

SpecFinish == InitFinish /\ [][NextFinish]_vars

----------------------------------------------------------------------------
(* The timer manager on its own: its methods called for two session ids,   *)
(* in any order, while the clock runs and the timers fire.                 *)

\* the variables no TimerManager method touches
notTimerVars ==
  <<registryVars, lock, socket_participants, taskVars, now, judge_runs, pc>>

CallStartTurnTimer(sid, seconds) ==
  /\ SetTimerManager(start_turn_timer(TimerManager, sid, seconds))
  /\ UNCHANGED <<notTimerVars, loc>>

CallCancelTurnTimer(sid) ==
  /\ SetTimerManager(cancel_turn_timer(TimerManager, sid))
  /\ UNCHANGED <<notTimerVars, loc>>

CallStartTotalTimer(sid, seconds) ==
  /\ SetTimerManager(start_total_timer(TimerManager, sid, seconds))
  /\ UNCHANGED <<notTimerVars, loc>>

CallCancelTotalTimer(sid) ==
  /\ SetTimerManager(cancel_total_timer(TimerManager, sid))
  /\ UNCHANGED <<notTimerVars, loc>>

\* the caller keeps the returned seconds in its local elapsed
CallConsumeTurnTime(t, sid) ==
  /\ SetTimerManager(consume_turn_time(TimerManager, sid))
  /\ loc' = [loc EXCEPT ![t].elapsed = consume_elapsed(TimerManager, sid)]
  /\ UNCHANGED notTimerVars

NextTimers ==
  \/ Tick
  \/ \E sid \in SessionIds :
       \/ TurnTimerFire(sid)
       \/ TotalTimerFire(sid)
       \/ CallStartTurnTimer(sid, default_turn_seconds)
       \/ CallCancelTurnTimer(sid)
       \/ CallStartTotalTimer(sid, default_total_seconds)
       \/ CallCancelTotalTimer(sid)
       \/ CallConsumeTurnTime("t1", sid)

SpecTimers == Init /\ [][NextTimers]_vars

----------------------------------------------------------------------------
(* The timer manager called for one session id by a caller that keeps, in  *)
(* its locals, the method it called last, what it found for the id and     *)
(* what the method returned. The callbacks queue _handle_turn_timeout,     *)
(* which finds no session for the id and returns.                          *)

\* the seconds a turn timer is started with
TimerSeconds == {default_turn_seconds, default_turn_seconds + 1}

\* what a caller finds for the id: no table entry ("absent"), an entry
\* whose Timer is waiting ("running"), one whose time is up and whose
\* callback has not run yet ("due"), or one whose callback has run ("fired")
TimerState(kind, sid) ==
  LET table == IF kind = "turn" THEN turn_timers ELSE total_timers
  IN IF sid \notin DOMAIN table THEN "absent"
     ELSE IF TimerObject(kind, sid, table[sid]) \notin timer_threads THEN "fired"
     ELSE IF Expired(table[sid]) THEN "due"
     ELSE "running"

Called(t, method, sid, found, returned) ==
  loc' = [loc EXCEPT ![t] = [Loc0 EXCEPT !.out = method, !.sid = sid,
                                         !.tmp = found, !.elapsed = returned]]

TurnTimerStarted(t, sid, seconds) ==
  /\ SetTimerManager(start_turn_timer(TimerManager, sid, seconds))
  /\ Called(t, "start_turn_timer", sid, TimerState("turn", sid), 0)
  /\ UNCHANGED notTimerVars

TurnTimerCancelled(t, sid) ==
  /\ SetTimerManager(cancel_turn_timer(TimerManager, sid))
  /\ Called(t, "cancel_turn_timer", sid, TimerState("turn", sid), 0)
  /\ UNCHANGED notTimerVars

TotalTimerStarted(t, sid, seconds) ==
  /\ SetTimerManager(start_total_timer(TimerManager, sid, seconds))
  /\ Called(t, "start_total_timer", sid, TimerState("total", sid), 0)
  /\ UNCHANGED notTimerVars

TotalTimerCancelled(t, sid) ==
  /\ SetTimerManager(cancel_total_timer(TimerManager, sid))
  /\ Called(t, "cancel_total_timer", sid, TimerState("total", sid), 0)
  /\ UNCHANGED notTimerVars

TurnTimeConsumed(t, sid) ==
  /\ SetTimerManager(consume_turn_time(TimerManager, sid))
  /\ Called(t, "consume_turn_time", sid, TimerState("turn", sid),
            consume_elapsed(TimerManager, sid))
  /\ UNCHANGED notTimerVars

NextTimerCalls ==
  \/ Tick
  \/ TurnTimerFire("s1")
  \/ TotalTimerFire("s1")
  \/ HandleTurnTimeout("t2", "s1")
  \/ \E seconds \in TimerSeconds : TurnTimerStarted("t1", "s1", seconds)
  \/ TurnTimerCancelled("t1", "s1")
  \/ TotalTimerStarted("t1", "s1", default_total_seconds)
  \/ TotalTimerCancelled("t1", "s1")
  \/ TurnTimeConsumed("t1", "s1")

SpecTimerCalls == Init /\ [][NextTimerCalls]_vars

----------------------------------------------------------------------------
(* Matchmaking: hosts create invite sessions, guests join by code, players *)
(* ask for a random match, and a custom topic is selected for a session,   *)
(* two requests at a time. Every registry method holds the lock for its    *)
(* whole body, so the calls of the two threads follow one another.         *)

\* the codes a guest sends: a session's code in lower and in upper case, a
\* code no session has, and none
Codes == {"s1", "S2", "zz", ""}

MatchRequests(t) ==
  \/ CreateInvite(t, "Alice")
  \/ \E code \in Codes : JoinInvite(t, code, "Bob")
  \/ JoinRandom(t, "Carol")
  \/ \E sid \in SessionIds : SelectTopicRoute(t, sid, "X", TRUE)
  \/ SendResponse(t)

NextMatch == \E t \in Threads : MatchRequests(t) \/ SelectSteps(t)

SpecMatch == Init /\ [][NextMatch]_vars

----------------------------------------------------------------------------
(* The debate from the coin toss on, with the clock running: the coin toss *)
(* is acknowledged, sockets join and re-join the session's room, arguments *)
(* are sent, timers expire and the debate is ended.                        *)

\* the session after select_topic: both debaters present, status CoinToss
CoinTossSession ==
  [DebateSession EXCEPT !.status = COIN_TOSS, !.coinTossCompleted = FALSE]

InitStart ==
  /\ sessions = Put(<<>>, "s1", CoinTossSession)
  /\ parts = Put(Put(<<>>, Alice,
                     [NewParticipant("s1", "Alice", PROPONENT)
                        EXCEPT !.socket_id = "k1"]),
                 Bob, [NewParticipant("s1", "Bob", OPPONENT)
                         EXCEPT !.socket_id = "k2"])
  /\ waiting_random = None
  /\ lock = None
  /\ socket_participants =
       Put(Put(<<>>, "k1", [session_id |-> "s1", role |-> PROPONENT]),
           "k2", [session_id |-> "s1", role |-> OPPONENT])
  /\ turn_timers = <<>>
  /\ total_timers = <<>>
  /\ timer_threads = {}
  /\ turn_tasks = [s \in SessionIds |-> 0]
  /\ total_tasks = [s \in SessionIds |-> 0]
  /\ now = 0
  /\ judge_runs = [s \in SessionIds |-> 0]
  /\ pc = [t \in Threads |-> "idle"]
  /\ loc = [t \in Threads |-> Loc0]

StartRequests(t) ==
  \/ CoinTossComplete(t, "k1")
  \/ \E sock \in Sockets, role \in Roles : JoinSession(t, sock, "s1", role)
  \/ \E sock \in Sockets, m \in Messages : SendMessage(t, sock, m)
  \/ EndDebate(t, "k1")
  \/ HandleTurnTimeout(t, "s1")
  \/ HandleTotalTimeout(t, "s1")

NextStart ==
  \/ Tick
  \/ TurnTimerFire("s1")
  \/ TotalTimerFire("s1")
  \/ StartRequests("t1")
  \/ StartSteps("t1")
  \/ SendSteps("t1")
  \/ FinishSteps("t1")
  \/ TimeoutSteps("t1")

SpecStart == InitStart /\ [][NextStart]_vars

----------------------------------------------------------------------------
(* The heuristic scorer (gemini.py:351-498). Scores are counted in         *)
(* hundredths of a point, the unit round(x, 2) leaves; an argument's text  *)
(* is known by what the scorer reads of it: its words, its keyword hits,   *)
(* the average length of its sentences.                                    *)

Min(a, b) == IF a <= b THEN a ELSE b

Max(a, b) == IF a >= b THEN a ELSE b

Abs(a) == IF a >= 0 THEN a ELSE 0 - a

\* round(num / den, 2) in hundredths, for num >= 0 and den > 0
Round2(num, den) == (200 * num + den) \div (2 * den)

\* min(word_count / 50.0, 3.0)
length_bonus(word_count) == Min(2 * word_count, 300)

\* min(evidence_hits * 0.5, 2.0)
evidence_bonus(evidence_hits) == Min(50 * evidence_hits, 200)

\* min(connector_hits * 0.3, 1.0)
connector_bonus(connector_hits) == Min(30 * connector_hits, 100)

\* average == 0: the text has no sentence
_sentence_clarity_bonus(average) ==
  IF average = 0 THEN 0 ELSE Max(0, 100 - 5 * Abs(average - 20))

_time_efficiency_penalty(time_taken) ==
  IF time_taken = 0 THEN 25
  ELSE IF Abs(time_taken - 30) >= 30 THEN 50
  ELSE Round2(Abs(time_taken - 30), 60)

RECURSIVE SumBonus(_)
SumBonus(matches) ==
  IF matches = <<>> THEN 0
  ELSE Min(20 * Head(matches), 60) + SumBonus(Tail(matches))

\* matches: the keyword hits of each topic profile the topic falls in
_topic_specific_bonus(matches) == Min(SumBonus(matches), 100)

\* lines 361-414: the score before it is clamped
raw_score(argument) ==
  LET content == argument.content
  IN 500 + length_bonus(content.words)
         + evidence_bonus(content.evidence_hits)
         + connector_bonus(content.connector_hits)
         + _sentence_clarity_bonus(content.sentence_average)
         - 100 * content.fallacy_hits
         - _time_efficiency_penalty(argument.time_taken)
         + _topic_specific_bonus(content.topic_matches)

\* a faulty variant of _score_argument: the score is not clamped
_score_argument_unclamped(argument) ==
  [turn |-> argument.turn, role |-> argument.role,
   score |-> raw_score(argument)]

_score_argument(argument) ==
  [turn |-> argument.turn, role |-> argument.role,
   score |-> Max(100, Min(1000, raw_score(argument)))]

\* the largest number of keyword hits of one kind
MaxHits == 3

WordCounts == {0, 1, 39, 50, 150, 10000}

TimesTaken == {0, 1, 30, 45, 100000}

SentenceAverages == {0, 1, 20, 30, 10000}

TopicMatches == {<<>>, <<1>>, <<3, 2>>, <<MaxHits, MaxHits, MaxHits>>}

\* what a text of no word holds: nothing
EmptyContent ==
  [words |-> 0, evidence_hits |-> 0, connector_hits |-> 0,
   fallacy_hits |-> 0, sentence_average |-> 0, topic_matches |-> <<>>]

Contents ==
  {EmptyContent} \cup
  [words : WordCounts \ {0}, evidence_hits : 0..MaxHits + 2,
   connector_hits : 0..MaxHits + 1, fallacy_hits : 0..MaxHits + 7,
   sentence_average : SentenceAverages \ {0}, topic_matches : TopicMatches]

\* the payload entries score_arguments builds (lines 128-137)
ArgumentPayloads ==
  [turn : {0}, role : {PROPONENT}, content : Contents,
   time_taken : TimesTaken]

InitScore ==
  /\ Init!1 /\ Init!2 /\ Init!3 /\ Init!4 /\ Init!5 /\ Init!6 /\ Init!7
  /\ Init!8 /\ Init!9 /\ Init!10 /\ Init!11 /\ Init!12 /\ Init!13
  /\ \E argument \in ArgumentPayloads :
       loc = [t \in Threads |->
                IF t = "t1" THEN [Loc0 EXCEPT !.arg = argument] ELSE Loc0]

\* _heuristic_debate_scores, line 320: one argument scored
ScoreArgument(t) ==
  /\ pc[t] = "idle"
  /\ Go(t, "scored", [loc[t] EXCEPT !.result = _score_argument(loc[t].arg)])
  /\ UNCHANGED <<registryVars, lock, socket_participants, timerVars, taskVars,
                 now, judge_runs>>

NextScore == ScoreArgument("t1")

SpecScore == InitScore /\ [][NextScore]_vars

----------------------------------------------------------------------------
(* The judging pipeline stage by stage (judge.py:24-142) and the scoring   *)
(* it asks for (gemini.py:121-181). Judge above is its summary: a          *)
(* validation error, a scoring error or a delivered result. Totals are     *)
(* counted in half hundredths of a point, the unit half of a rounded       *)
(* overtime penalty leaves.                                                *)

\* what the call of the scoring oracle comes to: _configure_if_needed()
\* false, generate_content raising, a response without text, a text that
\* is no JSON object, a JSON object
OracleReplies == {"unconfigured", "raises", "empty", "unparseable", "payload"}

\* the scores an oracle's payload gives an argument, in hundredths
OracleScores == {300, 700}

\* the payloads the oracle may answer a transcript with: a score for every
\* argument, or no per_argument list at all
OraclePayloads(transcript) ==
  {<<>>} \cup
  {[i \in DOMAIN transcript |->
      [turn |-> transcript[i].turn_index,
       role |-> transcript[i].speaker_role,
       score |-> f[i]]] : f \in [DOMAIN transcript -> OracleScores]}

Oracles(transcript) ==
  {[reply |-> r, per_argument |-> <<>>] : r \in OracleReplies \ {"payload"}}
    \cup {[reply |-> "payload", per_argument |-> p] :
            p \in OraclePayloads(transcript)}

\* score_arguments, lines 128-137
arguments_payload(transcript) ==
  [i \in DOMAIN transcript |->
     [turn |-> transcript[i].turn_index,
      role |-> transcript[i].speaker_role,
      content |-> transcript[i].content,
      time_taken |-> transcript[i].time_taken_seconds]]

\* lines 309-321: the per_argument list of the heuristic
_heuristic_debate_scores(arguments) ==
  [i \in DOMAIN arguments |-> _score_argument(arguments[i])]

\* lines 184-210: turn, role and score of every entry kept
_normalise_scores(payload) ==
  [i \in DOMAIN payload |->
     [turn |-> payload[i].turn, role |-> payload[i].role,
      score |-> payload[i].score]]

\* score_arguments: what it raises, the scorers it invoked, the scores
score_arguments(transcript, oracle) ==
  IF oracle.reply = "unconfigured"
  THEN [raised |-> None, invoked |-> {"heuristic"},
        per_argument |-> _heuristic_debate_scores(arguments_payload(transcript))]
  ELSE IF oracle.reply = "raises"
  THEN [raised |-> "GeminiError", invoked |-> {"oracle"},
        per_argument |-> <<>>]
  ELSE IF oracle.reply = "payload"
  THEN [raised |-> None, invoked |-> {"oracle"},
        per_argument |-> _normalise_scores(oracle.per_argument)]
  \* lines 171-174 not taken, then line 181
  ELSE [raised |-> None, invoked |-> {"oracle", "heuristic"},
        per_argument |-> _heuristic_debate_scores(arguments_payload(transcript))]

\* the order of the keys of session.participants: the Proponent's slot is
\* filled when the session is created
RoleOrder == <<PROPONENT, OPPONENT>>

RECURSIVE SumScores(_, _)
\* _decide, lines 65-66, for one role
SumScores(per_argument, role) ==
  IF per_argument = <<>> THEN 0
  ELSE (IF Head(per_argument).role = role THEN Head(per_argument).score ELSE 0)
         + SumScores(Tail(per_argument), role)

\* _calculate_time_penalties, in half hundredths: half of the rounded
\* overtime penalty for each role, 2.5 for a role that spent no time
_calculate_time_penalties(session) ==
  LET overtime == session.total_elapsed_seconds - session.total_time_limit
      penalty == IF overtime > 0 THEN Round2(overtime, 30) ELSE 0
  IN [role \in DOMAIN session.participants |->
        penalty + IF parts[session.participants[role]].time_spent_seconds = 0
                  THEN 500 ELSE 0]

\* max(totals.items(), key=...)[0]: the first key of the largest value
FirstMax(totals) ==
  LET keys == SelectSeq(RoleOrder, LAMBDA r : r \in DOMAIN totals)
      best == CHOOSE v \in Range(totals) : \A w \in Range(totals) : w <= v
  IN Head(SelectSeq(keys, LAMBDA r : totals[r] = best))

_decide(session, per_argument) ==
  LET penalties == _calculate_time_penalties(session)
      totals == [role \in DOMAIN session.participants |->
                   2 * SumScores(per_argument, role) - penalties[role]]
  IN [overall |-> totals,
      winner |-> IF DOMAIN totals # {} THEN FirstMax(totals) ELSE "tie",
      penalties |-> penalties]

\* round(score, 2) of a total: halves go to the even hundredth
RoundTotal(total) ==
  IF total % 2 = 0 THEN total \div 2
  ELSE LET below == (total - 1) \div 2
       IN IF below % 2 = 0 THEN below ELSE below + 1

\* _review: the winner and needs_review
_review(decision) ==
  IF DOMAIN decision.overall = {}
  THEN [winner |-> "tie", needs_review |-> TRUE]
  ELSE [winner |-> decision.winner,
        needs_review |->
          Cardinality({RoundTotal(decision.overall[r]) :
                         r \in DOMAIN decision.overall}) = 1]

\* the judging in progress, kept in the thread's locals
Judging0(return) ==
  [return |-> return, stages |-> <<>>, reply |-> None, invoked |-> {},
   per_argument |-> <<>>,
   overall |-> <<>>, winner |-> None, penalties |-> <<>>,
   needs_review |-> FALSE]

\* a faulty variant of Raise: what the pipeline has got so far is returned
\* to the caller as the result
RaiseReturningPartial(t, exc, judging) ==
  Go(t, judging.return,
     [loc[t] EXCEPT !.result =
        [run |-> 1, turns |-> 0, stages |-> judging.stages,
         invoked |-> judging.invoked, winner_role |-> None,
         overall_score |-> judging.overall,
         per_argument_scores |-> judging.per_argument,
         flagged_for_review |-> FALSE]])

\* an exception leaves the pipeline and the handler that called it
Raise(t, exc, judging) ==
  Go(t, "raised", [loc[t] EXCEPT !.out = exc, !.result = judging])

Unwind(t) ==
  /\ pc[t] = "raised"
  /\ Done(t, loc[t].out)
  /\ UNCHANGED <<registryVars, lock, socket_participants, timerVars, taskVars,
                 now, judge_runs>>

\* a faulty variant of JudgeIntake: the roles are not validated
JudgeIntakeUnvalidated(t) ==
  /\ pc[t] \in {"fs_judge", "fd_judge"}
  /\ judge_runs[loc[t].sid] < MaxJudgeRuns
  /\ Go(t, "j_understand",
        [loc[t] EXCEPT !.result =
           [Judging0(IF pc[t] = "fs_judge" THEN "fs_complete"
                     ELSE "fd_complete") EXCEPT !.stages = <<"intake">>]])
  /\ UNCHANGED <<registryVars, lock, socket_participants, timerVars, taskVars,
                 now, judge_runs>>

\* judge_session, judge and _intake (judge.py:24-47, 145-147)
JudgeIntake(t) ==
  /\ pc[t] \in {"fs_judge", "fd_judge"}
  /\ judge_runs[loc[t].sid] < MaxJudgeRuns
  /\ LET judging == Judging0(IF pc[t] = "fs_judge" THEN "fs_complete"
                             ELSE "fd_complete")
     IN IF ~ensure_roles_present(DOMAIN sessions[loc[t].sid].participants)
        THEN Raise(t, "ValidationError", judging)
        ELSE Go(t, "j_understand",
                [loc[t] EXCEPT !.result =
                   [judging EXCEPT !.stages = <<"intake">>]])
  /\ UNCHANGED <<registryVars, lock, socket_participants, timerVars, taskVars,
                 now, judge_runs>>

\* _understand (judge.py:50-59)
JudgeUnderstand(t, oracle) ==
  /\ pc[t] = "j_understand"
  /\ LET scores == score_arguments(sessions[loc[t].sid].transcript, oracle)
     IN IF scores.raised # None
        THEN Raise(t, scores.raised,
                   [loc[t].result EXCEPT !.reply = oracle.reply,
                                         !.invoked = scores.invoked])
        ELSE Go(t, "j_decide",
                [loc[t] EXCEPT !.result.stages = Append(@, "understand"),
                               !.result.reply = oracle.reply,
                               !.result.invoked = scores.invoked,
                               !.result.per_argument = scores.per_argument])
  /\ UNCHANGED <<registryVars, lock, socket_participants, timerVars, taskVars,
                 now, judge_runs>>

\* _decide (judge.py:62-81)
JudgeDecide(t) ==
  /\ pc[t] = "j_decide"
  /\ LET decision == _decide(sessions[loc[t].sid], loc[t].result.per_argument)
     IN Go(t, "j_review",
           [loc[t] EXCEPT !.result.stages = Append(@, "decide"),
                          !.result.overall = decision.overall,
                          !.result.winner = decision.winner,
                          !.result.penalties = decision.penalties])
  /\ UNCHANGED <<registryVars, lock, socket_participants, timerVars, taskVars,
                 now, judge_runs>>

\* _review (judge.py:96-108)
JudgeReview(t) ==
  /\ pc[t] = "j_review"
  /\ LET reviewed == _review(loc[t].result)
     IN Go(t, "j_deliver",
           [loc[t] EXCEPT !.result.stages = Append(@, "review"),
                          !.result.winner = reviewed.winner,
                          !.result.needs_review = reviewed.needs_review])
  /\ UNCHANGED <<registryVars, lock, socket_participants, timerVars, taskVars,
                 now, judge_runs>>

\* _deliver (judge.py:111-142): the SessionResult returned to the caller
JudgeDeliver(t) ==
  /\ pc[t] = "j_deliver"
  /\ LET sid == loc[t].sid
         judging == loc[t].result
     IN /\ judge_runs' = [judge_runs EXCEPT ![sid] = @ + 1]
        /\ Go(t, judging.return,
              [loc[t] EXCEPT !.result =
                 [run |-> judge_runs[sid] + 1,
                  turns |-> Len(sessions[sid].transcript),
                  stages |-> Append(judging.stages, "deliver"),
                  invoked |-> judging.invoked,
                  winner_role |-> IF judging.winner \in Roles
                                  THEN judging.winner ELSE None,
                  overall_score |-> judging.overall,
                  per_argument_scores |-> judging.per_argument,
                  flagged_for_review |-> judging.needs_review]])
  /\ UNCHANGED <<registryVars, lock, socket_participants, timerVars, taskVars,
                 now>>

\* what the oracle may do when thread t asks it for scores
OraclesFor(t) ==
  IF pc[t] = "j_understand" THEN Oracles(sessions[loc[t].sid].transcript)
  ELSE {}

JudgeSteps(t) ==
  \/ JudgeIntake(t)
  \/ \E oracle \in OraclesFor(t) : JudgeUnderstand(t, oracle)
  \/ JudgeDecide(t)
  \/ JudgeReview(t)
  \/ JudgeDeliver(t)
  \/ Unwind(t)

\* the texts of the arguments judged
JudgedContents ==
  { [words |-> 1, evidence_hits |-> 0, connector_hits |-> 0,
     fallacy_hits |-> MaxHits, sentence_average |-> 1,
     topic_matches |-> <<>>],
    [words |-> 150, evidence_hits |-> 1, connector_hits |-> 1,
     fallacy_hits |-> 0, sentence_average |-> 20, topic_matches |-> <<1>>] }

\* the longest transcript judged
MaxJudged == 2

\* the transcripts send_message leaves: the roles take turns, the
\* Proponent first
JudgedTranscripts ==
  UNION {
    {[i \in 1..n |->
        [speaker_role |-> IF i % 2 = 1 THEN PROPONENT ELSE OPPONENT,
         speaker_name |-> IF i % 2 = 1 THEN "Alice" ELSE "Bob",
         turn_index |-> i - 1,
         time_taken_seconds |-> f[i].time,
         content |-> f[i].content]] :
       f \in [1..n -> [time : 0..default_turn_seconds,
                       content : JudgedContents]]} : n \in 0..MaxJudged}

RECURSIVE TimeTaken(_, _)
\* the seconds the arguments of a role took
TimeTaken(transcript, role) ==
  IF transcript = <<>> THEN 0
  ELSE (IF Head(transcript).speaker_role = role
        THEN Head(transcript).time_taken_seconds ELSE 0)
         + TimeTaken(Tail(transcript), role)

\* A debate about to be judged: a transcript, and for each debater the
\* seconds of their arguments and of the turns they let time out
\* (websocket.py:143-145, 219-220).
InitJudge ==
  /\ \E transcript \in JudgedTranscripts, both \in BOOLEAN,
        missed \in [Roles -> {0, default_total_seconds}] :
       LET spent == [r \in Roles |-> TimeTaken(transcript, r) + missed[r]]
       IN /\ both \/ (transcript = <<>> /\ missed[OPPONENT] = 0)
          /\ sessions = Put(<<>>, "s1",
               [DebateSession EXCEPT
                  !.participants =
                     IF both THEN @ ELSE Put(<<>>, PROPONENT, Alice),
                  !.transcript = transcript,
                  !.total_elapsed_seconds = spent[PROPONENT] + spent[OPPONENT]])
          /\ parts = Put(Put(<<>>, Alice,
                             [NewParticipant("s1", "Alice", PROPONENT)
                                EXCEPT !.socket_id = "k1",
                                       !.time_spent_seconds = spent[PROPONENT]]),
                         Bob, [NewParticipant("s1", "Bob", OPPONENT)
                                 EXCEPT !.socket_id = "k2",
                                        !.time_spent_seconds = spent[OPPONENT]])
  /\ waiting_random = None
  /\ lock = None
  /\ socket_participants =
       Put(Put(<<>>, "k1", [session_id |-> "s1", role |-> PROPONENT]),
           "k2", [session_id |-> "s1", role |-> OPPONENT])
  /\ turn_timers = <<>>
  /\ total_timers = <<>>
  /\ timer_threads = {}
  /\ turn_tasks = [s \in SessionIds |-> 0]
  /\ total_tasks = [s \in SessionIds |-> 0]
  /\ now = 0
  /\ judge_runs = [s \in SessionIds |-> 0]
  /\ pc = [t \in Threads |-> "idle"]
  /\ loc = [t \in Threads |-> Loc0]

\* the debate is ended over the socket or over REST, one request at a time
NextJudge ==
  \/ EndDebate("t1", "k1")
  \/ FinishDebateCancel("t1")
  \/ FinishDebateCheck("t1")
  \/ FinishDebateComplete("t1")
  \/ FinishSession("t1", "s1")
  \/ FinishSessionComplete("t1")
  \/ JudgeSteps("t1")

SpecJudge == InitJudge /\ [][NextJudge]_vars

----------------------------------------------------------------------------
(* GET /topics/<id> with two requests handled at a time: each request      *)
(* checks the refresh limit, waits for generate_topics, and records the    *)
(* topics.                                                                 *)

\* what generate_topics may answer
TopicLists == {<<"A", "B", "C">>, <<"D", "E", "F">>}

\* the session create_invite_session leaves: the host alone in the lobby
LobbySession(sid) ==
  [NewSession(sid) EXCEPT
     !.custom_topic_allowed = TRUE, !.mode = "invite",
     !.participants = Put(<<>>, PROPONENT, <<sid, 1>>),
     !.current_turn = PROPONENT]

InitTopics ==
  /\ sessions = [sid \in SessionIds |-> LobbySession(sid)]
  /\ parts = [p \in SessionIds \X {1} |->
                NewParticipant(p[1], "Alice", PROPONENT)]
  /\ Init!3 /\ Init!4 /\ Init!5 /\ Init!6 /\ Init!7 /\ Init!8 /\ Init!9
  /\ Init!10 /\ Init!11 /\ Init!12 /\ Init!13 /\ Init!14

NextTopics ==
  \E t \in Threads :
    \/ \E sid \in SessionIds, r \in BOOLEAN : GetTopics(t, sid, r)
    \/ \E topics \in TopicLists : GetTopicsSet(t, topics)
    \/ SendResponse(t)

SpecTopics == InitTopics /\ [][NextTopics]_vars

----------------------------------------------------------------------------
(* Two debates side by side: the requests and the timer callbacks of       *)
(* session s1 are handled by thread t1, the requests of s2 by thread t2.   *)
(* The timers of s1 are due, those of s2 have just been started, and the   *)
(* judging of either may fail.                                             *)

\* the thread that handles what targets a session, and its debater's socket
Handler == [s1 |-> "t1", s2 |-> "t2"]

SocketOf == [s1 |-> "k1", s2 |-> "k2"]

\* the debate of DebateSession under another session id
DebateOf(sid) ==
  [DebateSession EXCEPT
     !.session_id = sid, !.invite_code = InviteCode(sid),
     !.participants = Put(Put(<<>>, PROPONENT, <<sid, 1>>), OPPONENT, <<sid, 2>>)]

InitTwo ==
  /\ now = default_total_seconds
  /\ sessions = [sid \in SessionIds |-> DebateOf(sid)]
  /\ parts = [p \in SessionIds \X {1, 2} |->
                IF p[2] = 1
                THEN [NewParticipant(p[1], "Alice", PROPONENT)
                        EXCEPT !.socket_id = SocketOf[p[1]]]
                ELSE NewParticipant(p[1], "Bob", OPPONENT)]
  /\ waiting_random = None
  /\ lock = None
  /\ socket_participants =
       [k \in Sockets |->
          [session_id |-> CHOOSE sid \in SessionIds : SocketOf[sid] = k,
           role |-> PROPONENT]]
  /\ turn_timers = [sid \in SessionIds |->
                      [started_at |-> IF sid = "s1" THEN 0 ELSE now,
                       seconds |-> default_turn_seconds]]
  /\ total_timers = [sid \in SessionIds |->
                       [started_at |-> IF sid = "s1" THEN 0 ELSE now,
                        seconds |-> default_total_seconds]]
  /\ timer_threads =
       {TimerObject("turn", sid, turn_timers[sid]) : sid \in SessionIds}
         \cup {TimerObject("total", sid, total_timers[sid]) : sid \in SessionIds}
  /\ turn_tasks = [s \in SessionIds |-> 0]
  /\ total_tasks = [s \in SessionIds |-> 0]
  /\ judge_runs = [s \in SessionIds |-> 0]
  /\ pc = [t \in Threads |-> "idle"]
  /\ loc = [t \in Threads |-> Loc0]

\* a request of session sid's debater taken up
TwoRequests(sid) ==
  \/ SendMessage(Handler[sid], SocketOf[sid], ValidMessage)
  \/ EndDebate(Handler[sid], SocketOf[sid])

\* a timer of session sid fires, a queued timer task is taken up
TimerCallbacks(sid) ==
  \/ TurnTimerFire(sid)
  \/ TotalTimerFire(sid)
  \/ HandleTurnTimeout(Handler[sid], sid)
  \/ HandleTotalTimeout(Handler[sid], sid)

\* the next step of the handler thread t runs
HandlerSteps(t) == SendSteps(t) \/ FinishSteps(t) \/ TimeoutSteps(t)

NextTwo ==
  \/ \E sid \in SessionIds : TwoRequests(sid)
  \/ TimerCallbacks("s1")
  \/ \E t \in Threads : HandlerSteps(t)

\* a handler that has begun is scheduled until it returns
SpecTwo ==
  /\ InitTwo /\ [][NextTwo]_vars
  /\ \A t \in Threads : WF_vars(HandlerSteps(t))

----------------------------------------------------------------------------
(* A debate from the coin toss to its end, with the scheduling the server  *)
(* gives it: the clock runs on while a total timer is running, a timer     *)
(* whose time is up fires, a background task that was queued is started,   *)
(* and a handler that has begun runs to its end. Thread t1 handles the     *)
(* clients' events, thread t2 the timers' background tasks. The scoring    *)
(* does not fail. The clients need not do anything.                        *)

\* a total timer is running and its time is not up
TotalTimerRunning ==
  \E th \in timer_threads : th.kind = "total" /\ ~Expired(th)

\* time passes, up to the expiry of the total timer
TickTimed ==
  /\ now < MaxTime \/ TotalTimerRunning
  /\ now' = now + 1
  /\ UNCHANGED <<registryVars, lock, socket_participants, timerVars, taskVars,
                 judge_runs, pc, loc>>

\* _finish_debate with a judging pipeline that delivers
FinishStepsScored(t) ==
  \/ FinishDebateCancel(t)
  \/ FinishDebateCheck(t)
  \/ FinishDebateJudge(t, "ok")
  \/ FinishDebateComplete(t)

\* the events of the clients
LiveRequests(t) ==
  \/ CoinTossComplete(t, "k1")
  \/ SendMessage(t, "k1", ValidMessage)
  \/ EndDebate(t, "k2")

\* the next step of the handler thread t runs
LiveSteps(t) ==
  \/ CoinTossResolve(t)
  \/ CoinTossCheck(t)
  \/ BeginDebate(t)
  \/ SendSteps(t)
  \/ TimeoutSteps(t)
  \/ FinishStepsScored(t)

NextLive ==
  \/ TickTimed
  \/ TurnTimerFire("s1")
  \/ TotalTimerFire("s1")
  \/ HandleTurnTimeout("t2", "s1")
  \/ HandleTotalTimeout("t2", "s1")
  \/ LiveRequests("t1")
  \/ \E t \in Threads : LiveSteps(t)

\* The background task of the total timeout is a task of its own: it is
\* started however often thread t2 is taken by turn timeouts.
SpecLive ==
  /\ InitStart /\ [][NextLive]_vars
  /\ WF_vars(TickTimed)
  /\ WF_vars(TurnTimerFire("s1"))
  /\ WF_vars(TotalTimerFire("s1"))
  /\ WF_vars(HandleTurnTimeout("t2", "s1"))
  /\ SF_vars(HandleTotalTimeout("t2", "s1"))
  /\ \A t \in Threads : WF_vars(LiveSteps(t))

----------------------------------------------------------------------------
(* The choice of the topic in a random match: two players are matched,     *)
(* one opens a socket, topics are fetched and refreshed, and a topic is    *)
(* chosen by vetoes, over REST or as a custom topic, one request at a      *)
(* time.                                                                   *)

\* the topics a client names: one of the first list, one of no list
NamedTopics == {"A", "X"}

\* the topics a client vetoes
VetoedTopics == {"A", "B", "X"}

VetoRequests(t) ==
  \/ JoinRandom(t, "Carol")
  \/ SendResponse(t)
  \/ \E role \in Roles : JoinSession(t, "k1", "s1", role)
  \/ \E r \in BOOLEAN : GetTopics(t, "s1", r)
  \/ \E topics \in TopicLists : GetTopicsSet(t, topics)
  \/ \E topic \in VetoedTopics : VetoTopic(t, "k1", topic)
  \/ VetoTopicRemaining(t)
  \/ \E topic \in NamedTopics, custom \in BOOLEAN :
       SelectTopicRoute(t, "s1", topic, custom)
  \/ \E topic \in NamedTopics : SetCustomTopic(t, "k1", topic)

NextVeto ==
  \/ VetoRequests("t1")
  \/ JoinSessionCheck("t1")
  \/ SelectSteps("t1")

SpecVeto == Init /\ [][NextVeto]_vars

----------------------------------------------------------------------------
(* Properties *)

\* SessionStatus in its lifecycle order (session.py:15-22)
Rank(status) ==
  CASE status = LOBBY -> 0
    [] status = VETO -> 1
    [] status = COIN_TOSS -> 2
    [] status = DEBATING -> 3
    [] status = FINISHED -> 4

\* the speaker roles of a transcript, in order
SpeakerRoles(transcript) ==
  [i \in 1..Len(transcript) |-> transcript[i].speaker_role]

\* C1: a session's status never moves backward in the order
\* Lobby < Veto < CoinToss < Debating < Finished: after every step the status
\* of every session is the same as or later than before.
C1_StatusNeverMovesBackward ==
  [][\A sid \in DOMAIN sessions :
       Rank(sessions'[sid].status) >= Rank(sessions[sid].status)]_vars

\* C1: a session is back in Veto although its topic was already chosen and
\* its coin toss acknowledged.
C1_BackInVeto ==
  \E sid \in DOMAIN sessions :
    /\ sessions[sid].status = VETO
    /\ sessions[sid].chosen_topic # None
    /\ sessions[sid].coinTossCompleted

\* C2: a session becomes Finished only from Debating: in every step that
\* makes a session Finished, its status before the step is Debating.
C2_FinishedOnlyFromDebating ==
  [][\A sid \in DOMAIN sessions :
       (sessions'[sid].status = FINISHED /\ sessions[sid].status # FINISHED)
         => sessions[sid].status = DEBATING]_vars

\* C2: a session is Finished that never had a topic, so it never debated.
C2_FinishedWithoutTopic ==
  \E sid \in DOMAIN sessions :
    /\ sessions[sid].status = FINISHED
    /\ sessions[sid].chosen_topic = None

\* what a submission may not touch unless it is accepted
SubmissionVars == <<sessions, parts, timerVars>>

\* C3, for the submission thread t handles
C3Step(t) ==
  LET sid == loc[t].sid
  IN \* past the status check only with a valid text, a known session and
     \* status Debating, and nothing changed so far
     /\ (pc[t] = "idle" /\ pc'[t] = "sm_turn") =>
          /\ validate_argument_length(loc'[t].message) = "ok"
          /\ loc'[t].sid \in DOMAIN sessions
          /\ sessions[loc'[t].sid].status = DEBATING
          /\ UNCHANGED SubmissionVars
     \* past the turn check only when the role is current_turn, and in
     \* every other case rejected
     /\ (pc[t] = "sm_turn" /\ pc'[t] # "sm_turn") =>
          IF sessions[sid].status = DEBATING
               /\ sessions[sid].current_turn = loc[t].role
          THEN pc'[t] = "sm_consume"
          ELSE pc'[t] = "error"
     \* a rejection comes before any change
     /\ (pc'[t] = "error" /\ pc[t] # "error") =>
          /\ pc[t] \in {"idle", "sm_turn"}
          /\ UNCHANGED SubmissionVars
     \* the append: one argument, by the role whose turn it is
     /\ (pc[t] = "sm_append" /\ pc'[t] = "sm_next") =>
          /\ sessions'[sid].transcript =
               Append(sessions[sid].transcript, loc[t].arg)
          /\ loc[t].arg.speaker_role = sessions[sid].current_turn
          /\ sessions[sid].status = DEBATING
     \* the toggle
     /\ (pc[t] = "sm_setturn" /\ pc'[t] = "sm_spent_r") =>
          /\ sessions[sid].current_turn = loc[t].role
          /\ sessions'[sid].current_turn = next_role(loc[t].role)
          /\ sessions'[sid].current_turn # sessions[sid].current_turn

\* C3: with the handlers run one at a time, a submission is accepted only
\* when the status is Debating and the submitting role is current_turn; a
\* rejected submission (wrong status, wrong turn, empty or oversized text)
\* leaves the transcript, current_turn, the time counters and the turn
\* timer unchanged; an accepted one appends exactly one argument and
\* toggles current_turn; and the transcript grows in no other way.
C3_SubmissionContract ==
  [][/\ \A t \in Threads : C3Step(t)
     /\ \A sid \in DOMAIN sessions :
          sessions'[sid].transcript # sessions[sid].transcript =>
            \E t \in Threads : pc[t] = "sm_append" /\ pc'[t] = "sm_next"]_vars

\* C3: after one accepted argument, a submission out of turn is about to be
\* rejected.
C3_RejectedOutOfTurn ==
  /\ pc["t1"] = "error"
  /\ loc["t1"].out = "Not your turn"
  /\ Len(sessions["s1"].transcript) = 1
  /\ sessions["s1"].current_turn = OPPONENT

\* C4: under every interleaving of a turn-timeout handler and a submission
\* handler, every argument appended has speaker_role equal to the
\* session's current_turn at the moment of the append.
C4_AppendByCurrentTurn ==
  [][\A sid \in DOMAIN sessions :
       sessions'[sid].transcript # sessions[sid].transcript =>
         /\ Len(sessions'[sid].transcript) = Len(sessions[sid].transcript) + 1
         /\ sessions'[sid].transcript[Len(sessions'[sid].transcript)].speaker_role
              = sessions[sid].current_turn]_vars

\* C4: the Proponent's submission has passed the turn check and is about
\* to append, and the timeout handler has meanwhile run to its end and
\* passed the turn to the Opponent.
C4_AppendPendingAfterTimeout ==
  /\ pc["t1"] = "sm_append"
  /\ loc["t1"].role = PROPONENT
  /\ pc["t2"] = "idle"
  /\ sessions["s1"].current_turn = OPPONENT
  /\ parts[Alice].time_spent_seconds = default_turn_seconds

\* C5: from resolve_coin_toss on, with no turn-timeout, current_turn is
\* Proponent after an even number of accepted submissions and Opponent after
\* an odd number (resolve_coin_toss sets Proponent, every accepted
\* submission toggles), and the speaker roles in the transcript strictly
\* alternate beginning with Proponent.
C5_TurnsAlternate ==
  /\ [](\A sid \in DOMAIN sessions :
          \A i \in 1..Len(sessions[sid].transcript) :
            sessions[sid].transcript[i].speaker_role =
              IF i % 2 = 1 THEN PROPONENT ELSE OPPONENT)
  /\ [][\A t \in Threads :
          /\ (pc[t] = "ct_resolve" /\ pc'[t] = "ct_check"
                /\ sessions[loc[t].sid].status = COIN_TOSS) =>
               sessions'[loc[t].sid].current_turn = PROPONENT
          /\ (pc[t] = "sm_setturn" /\ pc'[t] = "sm_spent_r") =>
               sessions'[loc[t].sid].current_turn =
                 next_role(sessions[loc[t].sid].current_turn)]_vars

\* C5: a transcript whose first two arguments are both the Proponent's.
C5_ProponentTwice ==
  \E sid \in DOMAIN sessions :
    /\ Len(sessions[sid].transcript) >= 2
    /\ sessions[sid].transcript[1].speaker_role = PROPONENT
    /\ sessions[sid].transcript[2].speaker_role = PROPONENT

\* C6: in every reachable state, also with submissions handled
\* concurrently, the i-th argument of every transcript has turn_index i,
\* counting from 0: contiguous, no duplicates, no gaps.
C6_TurnIndexIsPosition ==
  \A sid \in DOMAIN sessions :
    \A i \in 1..Len(sessions[sid].transcript) :
      sessions[sid].transcript[i].turn_index = i - 1

\* C6: two arguments in the transcript, both with turn_index 0.
C6_DuplicateIndex ==
  /\ Len(sessions["s1"].transcript) = 2
  /\ sessions["s1"].transcript[1].turn_index = 0
  /\ sessions["s1"].transcript[2].turn_index = 0

\* the Participant objects in a session's slots
Members(sid) == Range(sessions[sid].participants)

\* C7: in every reachable state a session has at most two participants, no
\* two of them hold the same role, and the participant stored under role r
\* has role r; before, during and after the swap of select_topic.
C7_RolesExclusive ==
  \A sid \in DOMAIN sessions :
    LET ps == sessions[sid].participants
    IN /\ Cardinality(DOMAIN ps) <= 2
       /\ \A r \in DOMAIN ps : parts[ps[r]].role = r
       /\ \A r1, r2 \in DOMAIN ps :
            r1 # r2 => /\ ps[r1] # ps[r2]
                       /\ parts[ps[r1]].role # parts[ps[r2]].role

\* C7: in the middle of the swap both participants are Opponent.
C7_BothOpponent ==
  \E sid \in DOMAIN sessions :
    /\ Cardinality(Members(sid)) = 2
    /\ \A p \in Members(sid) : parts[p].role = OPPONENT

\* C8: judging runs and a result is attached at most once per session: no
\* session is judged twice, and once a result is attached no step judges
\* the session again or replaces the result.
C8_JudgedOnce ==
  /\ [](\A sid \in DOMAIN sessions : judge_runs[sid] <= 1)
  /\ [][\A sid \in DOMAIN sessions :
          sessions[sid].result # NoResult =>
            /\ sessions'[sid].result = sessions[sid].result
            /\ judge_runs'[sid] = judge_runs[sid]]_vars

\* C8: the session carries the result of a second judging run.
C8_SecondResult ==
  /\ sessions["s1"].status = FINISHED
  /\ sessions["s1"].result.run = 2

\* C9: in every reachable state in which a session is Finished, neither a
\* turn timer nor a total timer is scheduled for it.
C9_FinishedHasNoTimers ==
  \A sid \in DOMAIN sessions :
    sessions[sid].status = FINISHED =>
      /\ Scheduled("turn", sid) = {}
      /\ Scheduled("total", sid) = {}

\* C9: a Finished session whose turn timer and total timer are both still
\* scheduled.
C9_FinishedWithBothTimers ==
  /\ sessions["s1"].status = FINISHED
  /\ Scheduled("turn", "s1") # {}
  /\ Scheduled("total", "s1") # {}

\* a session id's timer of a kind: its table entry and its running Timer
\* objects
TimerOf(kind, sid) ==
  LET table == IF kind = "turn" THEN turn_timers ELSE total_timers
  IN <<IF sid \in DOMAIN table THEN {table[sid]} ELSE {},
       Scheduled(kind, sid)>>

TimerKeys == {"turn", "total"} \X SessionIds

C11_OnlyLatestTurnTimerFires ==
  /\ [][\A sid \in SessionIds, seconds \in TimerSeconds :
          (TurnTimerStarted("t1", sid, seconds)
             /\ TimerState("turn", sid) = "running") =>
            /\ Scheduled("turn", sid)' =
                 {TimerObject("turn", sid, NewTimer(seconds))}
            /\ turn_timers'[sid] = NewTimer(seconds)]_vars
  /\ [][\A sid \in SessionIds :
          turn_tasks'[sid] > turn_tasks[sid] =>
            /\ TimerState("turn", sid) = "due"
            /\ timer_threads \ timer_threads' =
                 {TimerObject("turn", sid, turn_timers[sid])}
            /\ TimerState("turn", sid)' = "fired"]_vars

\* C11: a turn timer was started at time 1 over one still running, and one
\* callback has run: that of the timer started at time 1.
C11_SecondTimerFired ==
  /\ loc["t1"].out = "start_turn_timer"
  /\ loc["t1"].tmp = "running"
  /\ turn_timers["s1"].started_at = 1
  /\ TimerState("turn", "s1") = "fired"
  /\ turn_tasks["s1"] = 1

\* C12: cancel_turn_timer for an id that has no turn timer changes nothing,
\* and a second call in a row leaves the manager as the first call left it;
\* the same for cancel_total_timer. (Neither method has a path that raises:
\* the pop is guarded by the membership test.)
C12_CancelIdempotent ==
  /\ [](\A sid \in SessionIds :
          LET M == TimerManager
          IN /\ sid \notin DOMAIN M.turn => cancel_turn_timer(M, sid) = M
             /\ sid \notin DOMAIN M.total => cancel_total_timer(M, sid) = M
             /\ cancel_turn_timer(cancel_turn_timer(M, sid), sid)
                  = cancel_turn_timer(M, sid)
             /\ cancel_total_timer(cancel_total_timer(M, sid), sid)
                  = cancel_total_timer(M, sid))
  /\ [][\A sid \in SessionIds :
          /\ (TurnTimerCancelled("t1", sid) /\ TimerState("turn", sid) = "absent")
               => UNCHANGED <<timerVars, notTimerVars>>
          /\ (TotalTimerCancelled("t1", sid) /\ TimerState("total", sid) = "absent")
               => UNCHANGED <<timerVars, notTimerVars>>
          /\ TurnTimerCancelled("t1", sid) => TimerState("turn", sid)' = "absent"
          /\ TotalTimerCancelled("t1", sid) => TimerState("total", sid)' = "absent"]_vars

\* C12: cancel_total_timer was called for an id that had no total timer,
\* and the id's turn timer is still running.
C12_CancelledNothing ==
  /\ loc["t1"].out = "cancel_total_timer"
  /\ loc["t1"].tmp = "absent"
  /\ TimerState("total", "s1") = "absent"
  /\ TimerState("turn", "s1") = "running"

\* C13: consume_turn_time(id) returns the whole seconds since the id's
\* turn timer was started when that timer is still scheduled, and 0 when no
\* turn timer is running for the id, be it that none was started or that
\* the last one has fired or was cancelled or consumed; afterwards the id
\* has no table entry and no scheduled turn timer, so no callback follows.
C13_ConsumeReturnsElapsed ==
  [][\A sid \in SessionIds :
       TurnTimeConsumed("t1", sid) =>
         /\ loc'["t1"].elapsed =
              IF TimerState("turn", sid) \in {"running", "due"}
              THEN now - turn_timers[sid].started_at
              ELSE 0
         /\ TimerState("turn", sid)' = "absent"
         /\ Scheduled("turn", sid)' = {}]_vars

\* C13: consume_turn_time was called after the timer's callback had run,
\* and returned a second.
C13_ConsumedAfterFire ==
  /\ loc["t1"].out = "consume_turn_time"
  /\ loc["t1"].tmp = "fired"
  /\ loc["t1"].elapsed = 1
  /\ TimerState("turn", "s1") = "absent"

\* C14, for the turn timeout thread t handles
C14Step(t) ==
  LET sid == loc[t].sid
      session == sessions[sid]
  IN \* the handler starts: on a session that is not Debating it ends at
     \* once, with nothing changed and no timer started
     /\ \A s \in DOMAIN sessions :
          (pc[t] = "idle" /\ turn_tasks'[s] < turn_tasks[s]
             /\ sessions[s].status # DEBATING) =>
            /\ pc'[t] = "idle"
            /\ UNCHANGED <<sessions, parts, timerVars>>
     \* every later step of the handler finds the session Debating and
     \* leaves the transcript as it is
     /\ (pc[t] \in {"tt_spent_r", "tt_spent_w", "tt_total_r", "tt_total_w",
                    "tt_next", "tt_setturn"}
           \/ (pc[t] = "stt" /\ loc[t].out = "timer:turnExpired")) =>
          /\ session.status = DEBATING
          /\ sessions'[sid].transcript = session.transcript
     \* the timed-out role is charged a turn
     /\ (pc[t] = "tt_spent_w" /\ pc'[t] = "tt_total_r") =>
          /\ loc[t].role = session.current_turn
          /\ parts'[session.participants[loc[t].role]].time_spent_seconds =
               parts[session.participants[loc[t].role]].time_spent_seconds
                 + session.per_turn_limit
     /\ (pc[t] = "tt_total_w" /\ pc'[t] = "tt_next") =>
          sessions'[sid].total_elapsed_seconds =
            session.total_elapsed_seconds + session.per_turn_limit
     \* the toggle
     /\ (pc[t] = "tt_setturn" /\ pc'[t] = "stt") =>
          sessions'[sid].current_turn = next_role(session.current_turn)
     \* the new turn timer
     /\ (pc[t] = "stt" /\ loc[t].out = "timer:turnExpired" /\ pc'[t] = "idle") =>
          /\ turn_timers'[sid] = NewTimer(session.per_turn_limit)
          /\ {th \in timer_threads' : th.kind = "turn" /\ th.sid = sid} =
               {TimerObject("turn", sid, NewTimer(session.per_turn_limit))}

\* C14: with the handlers run one at a time, a turn timeout acts only on a
\* session that is Debating, where it toggles current_turn, leaves the
\* transcript unchanged, adds per_turn_limit to the timed-out role's
\* time_spent_seconds and to total_elapsed_seconds and starts a new turn
\* timer; a timeout handler that runs when the session is not Debating
\* changes nothing and starts no timer.
C14_TimeoutOnlyWhileDebating ==
  [][\A t \in Threads : C14Step(t)]_vars

\* C14: the debate was ended over the socket, which cancelled both timers,
\* and the timeout queued before has since passed the turn, charged a turn
\* and started a turn timer for the Finished session.
C14_TimerStartedAfterFinish ==
  /\ sessions["s1"].status = FINISHED
  /\ judge_runs["s1"] = 1
  /\ "s1" \notin DOMAIN total_timers
  /\ sessions["s1"].transcript = <<>>
  /\ sessions["s1"].current_turn = OPPONENT
  /\ sessions["s1"].total_elapsed_seconds = default_turn_seconds
  /\ pc["t1"] = "idle"
  /\ TimerState("turn", "s1") = "running"

\* the positions of a thread inside _finish_debate
FinishLabels == {"fd_cancel", "fd_check", "fd_judge", "fd_complete"}

\* C15, for the submission thread t handles
C15Step(t) ==
  LET sid == loc[t].sid
      session == sessions[sid]
  IN \* the length test sends the handler to _finish_debate exactly when the
     \* transcript has reached max_turns, and starts no timer
     /\ (pc[t] = "sm_len" /\ pc'[t] # "sm_len") =>
          IF Len(session.transcript) >= session.max_turns
          THEN pc'[t] = "fd_cancel" /\ UNCHANGED timerVars
          ELSE pc'[t] = "stt"
     \* inside _finish_debate no turn timer is started, and past the
     \* cancellation none is scheduled
     /\ (pc[t] \in FinishLabels /\ loc[t].out = "message:new") =>
          /\ {th \in timer_threads' : th.kind = "turn" /\ th.sid = sid}
               \subseteq Scheduled("turn", sid)
          /\ pc[t] # "fd_cancel" => Scheduled("turn", sid) = {}
          \* the handler ends with the session judged and Finished
          /\ pc'[t] = "idle" =>
               /\ pc[t] = "fd_complete"
               /\ sessions'[sid].status = FINISHED
               /\ sessions'[sid].result = loc[t].result
               /\ loc[t].result.run = judge_runs[sid]
               /\ loc[t].result.turns = Len(session.transcript)

\* C15: with the handlers run one at a time, when an accepted submission
\* makes the transcript length reach max_turns, the same handler finishes
\* the debate: it starts no new turn timer, judging runs, and the handler
\* ends with the session Finished and the result attached.
C15_FinishedAtMaxTurns ==
  [][\A t \in Threads : C15Step(t)]_vars

\* C15: the transcript has reached max_turns, the handler has ended, both
\* timers are cancelled, no judging run has delivered a result, and the
\* session is still Debating.
C15_FullTranscriptStillDebating ==
  /\ \A t \in Threads : pc[t] = "idle"
  /\ Len(sessions["s1"].transcript) = max_turns
  /\ sessions["s1"].status = DEBATING
  /\ judge_runs["s1"] = 0
  /\ TimerState("turn", "s1") = "absent"
  /\ TimerState("total", "s1") = "absent"

\* the sessions the step leaves as they are: all but s
OthersUnchanged(s) ==
  /\ \A o \in DOMAIN sessions \ {s} : sessions'[o] = sessions[o]
  /\ \A p \in DOMAIN parts : parts'[p] = parts[p]

\* the participant in a slot of a session after the step
SlotAfter(s, role) == parts'[sessions'[s].participants[role]]

\* C16: create_invite_session yields a new session in Lobby whose only
\* participant is the host as Proponent, with current_turn = Proponent;
\* join_invite_session with the code of a session whose Opponent slot is
\* free makes the joiner its Opponent and sets status Veto; with a code no
\* session has it fails with NotFound (404), with the code of a session
\* whose Opponent slot is occupied it fails with Conflict (409), and both
\* failures leave every session unchanged.
C16_InviteContract ==
  [][\A t \in Threads :
       /\ CreateInvite(t, "Alice") =>
            LET s == NewSessionId
            IN /\ DOMAIN sessions' = DOMAIN sessions \cup {s}
               /\ s \notin DOMAIN sessions
               /\ sessions'[s].status = LOBBY
               /\ DOMAIN sessions'[s].participants = {PROPONENT}
               /\ SlotAfter(s, PROPONENT).name = "Alice"
               /\ SlotAfter(s, PROPONENT).role = PROPONENT
               /\ sessions'[s].current_turn = PROPONENT
               /\ OthersUnchanged(s)
       /\ \A code \in Codes \ {""} :
            JoinInvite(t, code, "Bob") =>
              LET match == {s \in DOMAIN sessions :
                              sessions[s].invite_code = Upper(code)}
              IN IF match = {}
                 THEN loc'[t].out = "404" /\ UNCHANGED registryVars
                 ELSE \E s \in match :
                        IF OPPONENT \in DOMAIN sessions[s].participants
                        THEN loc'[t].out = "409" /\ UNCHANGED registryVars
                        ELSE /\ loc'[t].out = "200"
                             /\ sessions'[s].status = VETO
                             /\ DOMAIN sessions'[s].participants = Roles
                             /\ sessions'[s].participants[OPPONENT]
                                  \notin DOMAIN parts
                             /\ SlotAfter(s, OPPONENT).name = "Bob"
                             /\ SlotAfter(s, OPPONENT).role = OPPONENT
                             /\ sessions'[s].participants[PROPONENT] =
                                  sessions[s].participants[PROPONENT]
                             /\ OthersUnchanged(s)]_vars

\* C16: Alice created s1, Bob joined it with its code, and a second join
\* with the same code is being answered with Conflict.
C16_SecondJoinConflict ==
  /\ pc["t1"] = "respond"
  /\ loc["t1"].out = "409"
  /\ "s1" \in DOMAIN sessions
  /\ sessions["s1"].status = VETO
  /\ sessions["s1"].mode = "invite"
  /\ DOMAIN sessions["s1"].participants = Roles
  /\ parts[sessions["s1"].participants[PROPONENT]].name = "Alice"
  /\ parts[sessions["s1"].participants[OPPONENT]].name = "Bob"

C18_OneWaitingSession ==
  /\ \A s \in DOMAIN sessions :
       (sessions[s].mode = "random"
          /\ Cardinality(DOMAIN sessions[s].participants) < 2) =>
         waiting_random = s
  /\ waiting_random # None =>
       /\ waiting_random \in DOMAIN sessions
       /\ DOMAIN sessions[waiting_random].participants = {PROPONENT}

\* C18: the waiting pointer names s1, whose Opponent slot Bob has taken
\* with the session's invite code.
C18_WaitingSessionFull ==
  /\ waiting_random = "s1"
  /\ DOMAIN sessions["s1"].participants = Roles
  /\ parts[sessions["s1"].participants[OPPONENT]].name = "Bob"
  /\ parts[sessions["s1"].participants[PROPONENT]].name = "Carol"

\* C19: a participant is never removed from or replaced in a session:
\* whenever no registry operation is under way, every Participant ever
\* placed in a session by create_invite_session, join_invite_session or
\* join_random_match is still in one of that session's slots (a coin-toss
\* swap may have changed the slot).
C19_ParticipantsStay ==
  lock = None =>
    \A p \in DOMAIN parts : p \in Members(parts[p].session_id)

\* C19: Bob, who joined s1 with its code, is in none of its slots: the
\* Opponent slot holds Carol, and so does the Proponent slot.
C19_BobReplaced ==
  /\ lock = None
  /\ "s1" \in DOMAIN sessions
  /\ \E p \in DOMAIN parts :
       /\ parts[p].name = "Bob"
       /\ parts[p].session_id = "s1"
       /\ p \notin Members("s1")
  /\ \A q \in Members("s1") : parts[q].name = "Carol"
  /\ Cardinality(Members("s1")) = 2

\* C20: when select_topic returns for a session that had both
\* participants, status is CoinToss, chosen_topic is the given topic,
\* current_turn is Proponent, the coin-toss completed flag is false, the
\* two slots hold the same two participants as before, in the same or in
\* exchanged roles, each with the role of its slot, and the recorded
\* coinToss pro and con names are the names of the participants in the
\* Proponent and the Opponent slot after the shuffle.
C20_SelectTopicResult ==
  [][\A t \in Threads :
       (pc[t] = "st_end" /\ pc'[t] = "idle"
          /\ DOMAIN sessions[loc[t].sid].participants = Roles) =>
         LET sid == loc[t].sid
             after == sessions'[sid]
             pro == after.participants[PROPONENT]
             con == after.participants[OPPONENT]
         IN /\ after.status = COIN_TOSS
            /\ after.chosen_topic = loc[t].topic
            /\ after.current_turn = PROPONENT
            /\ after.coinTossCompleted = FALSE
            /\ <<pro, con>> \in {<<loc[t].p1, loc[t].p2>>,
                                 <<loc[t].p2, loc[t].p1>>}
            /\ pro # con
            /\ parts'[pro].role = PROPONENT
            /\ parts'[con].role = OPPONENT
            /\ after.coinToss = [pro |-> parts'[pro].name,
                                 con |-> parts'[con].name]
            /\ \A p \in DOMAIN parts : parts'[p].name = parts[p].name]_vars

\* C20: both outcomes of the coin: in s1 Alice and Bob have exchanged
\* roles, in s2 they have kept them.
C20_SwappedAndKept ==
  /\ DOMAIN sessions = {"s1", "s2"}
  /\ \A t \in Threads : pc[t] = "idle"
  /\ sessions["s1"].status = COIN_TOSS
  /\ sessions["s1"].coinToss = [pro |-> "Bob", con |-> "Alice"]
  /\ parts[sessions["s1"].participants[PROPONENT]].name = "Bob"
  /\ parts[sessions["s1"].participants[OPPONENT]].role = OPPONENT
  /\ sessions["s2"].status = COIN_TOSS
  /\ sessions["s2"].coinToss = [pro |-> "Alice", con |-> "Bob"]
  /\ parts[sessions["s2"].participants[PROPONENT]].name = "Alice"

\* C21, for the coin_toss_complete thread t handles
C21Step(t) ==
  LET sid == loc[t].sid
      session == sessions[sid]
  IN \* resolve_coin_toss: from CoinToss the three writes and nothing
     \* else, from any other status nothing
     /\ (pc[t] = "ct_resolve" /\ pc'[t] = "ct_check") =>
          /\ IF session.status = COIN_TOSS
             THEN sessions' = [sessions EXCEPT
                                 ![sid].status = DEBATING,
                                 ![sid].coinTossCompleted = TRUE,
                                 ![sid].current_turn = PROPONENT]
             ELSE UNCHANGED sessions
          /\ UNCHANGED <<parts, waiting_random, timerVars>>
     \* the handler of a session that was not in CoinToss ends with
     \* nothing changed and no timer started
     /\ (pc[t] = "ct_check" /\ loc[t].tmp # COIN_TOSS) =>
          /\ pc'[t] = "idle"
          /\ UNCHANGED <<registryVars, timerVars>>

\* C21: resolve_coin_toss changes nothing (status, current_turn, coin-toss
\* metadata, timers) unless the session's status is CoinToss; from CoinToss
\* it sets status Debating, marks the coin toss completed and sets
\* current_turn to Proponent; and a session's status becomes Debating in
\* no other step than this one.
C21_ResolveCoinToss ==
  [][/\ \A t \in Threads : C21Step(t)
     /\ \A sid \in DOMAIN sessions :
          (sessions'[sid].status = DEBATING
             /\ sessions[sid].status # DEBATING) =>
            \E t \in Threads :
              /\ pc[t] = "ct_resolve" /\ pc'[t] = "ct_check"
              /\ loc[t].sid = sid
              /\ sessions[sid].status = COIN_TOSS]_vars

\* C21: coin_toss_complete was sent for a session in Veto; resolve_coin_toss
\* has returned and the session is still in Veto, not completed.
C21_ResolvedInVeto ==
  /\ pc["t1"] = "ct_check"
  /\ loc["t1"].tmp = VETO
  /\ sessions["s1"].status = VETO
  /\ sessions["s1"].coinTossCompleted = FALSE
  /\ turn_timers = <<>>

\* the entry of a session in _turn_timers, if any
TurnEntry(sid) ==
  IF sid \in DOMAIN turn_timers THEN {turn_timers[sid]} ELSE {}

\* the handlers' steps that may start, restart or stop the turn timer of
\* session sid: _begin_debate after the coin toss, an accepted submission
\* (the elapsed time consumed, the next turn's timer started), a
\* turn-timeout, and the end of the debate
DebateEventStep(t, sid) ==
  /\ loc[t].sid = sid
  /\ \/ pc[t] = "stt" /\ loc[t].out \in {"debate:started", "message:new",
                                        "timer:turnExpired"}
     \/ pc[t] \in {"sm_consume", "fd_cancel"}

\* C22: the turn timer of a session is started by the CoinToss -> Debating
\* transition and afterwards restarted only by an accepted submission or a
\* turn-timeout; no other event, a participant joining or re-joining the
\* session's room in particular, cancels, restarts or extends it.
C22_OnlyDebateEventsTouchTurnTimer ==
  [][\A sid \in SessionIds :
       (\/ TurnEntry(sid)' # TurnEntry(sid)
        \/ ~(Scheduled("turn", sid)' \subseteq Scheduled("turn", sid))) =>
         \E t \in Threads : DebateEventStep(t, sid)]_vars

\* C22: the Proponent re-joins the room while their turn's timer, started
\* earlier, has not fired; join_session is about to call _start_turn_timer.
C22_RejoinRestartsTimer ==
  /\ pc["t1"] = "stt"
  /\ loc["t1"].out = "session:update"
  /\ sessions["s1"].status = DEBATING
  /\ TimerState("turn", "s1") \in {"running", "due"}
  /\ turn_timers["s1"].started_at < now

\* C28: the heuristic score of an argument lies within [1, 10] whatever
\* its bonuses, its fallacy hits and its duration, an empty text and a
\* very long one included.
C28_ScoreWithinOneAndTen ==
  \A t \in Threads :
    pc[t] = "scored" =>
      loc[t].result.score >= 100 /\ loc[t].result.score <= 1000

\* C28: a text of 10000 words was scored 10, its bonuses adding up to more.
C28_LongArgumentClamped ==
  /\ pc["t1"] = "scored"
  /\ loc["t1"].arg.content.words = 10000
  /\ raw_score(loc["t1"].arg) > 1000
  /\ loc["t1"].result.score = 1000

\* the five stages of the pipeline
AllStages == <<"intake", "understand", "decide", "review", "deliver">>

\* C23: judging a session of fewer than two participants fails with a
\* validation error in Intake: neither the oracle nor the heuristic has
\* been invoked, and the session, its result and status included, is as it
\* was when the handler has ended.
C23_IntakeRejectsMissingRole ==
  [][\A t \in Threads :
       /\ (/\ pc[t] \in {"fs_judge", "fd_judge"}
           /\ Cardinality(DOMAIN sessions[loc[t].sid].participants) < 2) =>
            /\ pc'[t] = "raised"
            /\ loc'[t].out = "ValidationError"
            /\ loc'[t].result.stages = <<>>
            /\ loc'[t].result.invoked = {}
            /\ UNCHANGED <<sessions, parts>>
       /\ (pc[t] = "raised" /\ loc[t].out = "ValidationError") =>
            /\ pc'[t] = "idle"
            /\ UNCHANGED <<sessions, parts>>
            /\ sessions[loc[t].sid].result = NoResult
            /\ sessions[loc[t].sid].status = DEBATING]_vars

\* C23: end_debate on a session the Proponent is alone in: the judging has
\* raised the validation error.
C23_JudgedAlone ==
  /\ pc["t1"] = "raised"
  /\ loc["t1"].out = "ValidationError"
  /\ loc["t1"].result.return = "fd_complete"
  /\ DOMAIN sessions["s1"].participants = {PROPONENT}
  /\ sessions["s1"].result = NoResult

\* C24: the heuristic is used only when the oracle is not configured; a
\* configured oracle whose call raises, or answers with no text or with a
\* text that cannot be parsed, makes scoring raise its error, and the
\* heuristic is not invoked.
C24_HeuristicOnlyWhenUnconfigured ==
  \A t \in Threads :
    pc[t] \in {"j_decide", "raised"} =>
      LET judging == loc[t].result
      IN /\ "heuristic" \in judging.invoked => judging.reply = "unconfigured"
         /\ judging.reply \in {"raises", "empty", "unparseable"} =>
              pc[t] = "raised" /\ loc[t].out = "GeminiError"

\* C24: the configured oracle answered with no text, and the Understand
\* stage is over with the scores of the heuristic.
C24_EmptyReplyScoredByHeuristic ==
  /\ pc["t1"] = "j_decide"
  /\ loc["t1"].result.reply = "empty"
  /\ loc["t1"].result.invoked = {"oracle", "heuristic"}
  /\ Len(loc["t1"].result.per_argument) > 0

Overtime(session) ==
  IF session.total_elapsed_seconds > session.total_time_limit
  THEN session.total_elapsed_seconds - session.total_time_limit ELSE 0

\* the adjusted total the Decide stage owes a role, in half hundredths:
\* the role's scores, less half the overtime penalty, less 2.5 for a
\* debater who spent no time
AdjustedTotal(session, per_argument, role) ==
  2 * SumScores(per_argument, role)
    - Round2(Overtime(session), 30)
    - (IF parts[session.participants[role]].time_spent_seconds = 0
       THEN 500 ELSE 0)

\* C26, the totals and the winner among unequal totals
C26Totals(t) ==
  LET session == sessions[loc[t].sid]
      judging == loc[t].result
  IN /\ DOMAIN judging.overall = DOMAIN session.participants
     /\ \A role \in DOMAIN judging.overall :
          judging.overall[role] =
            AdjustedTotal(session, judging.per_argument, role)
     /\ \A role, other \in DOMAIN judging.overall :
          judging.overall[role] > judging.overall[other] =>
            judging.winner = role

\* C26: after the Decide stage each role's total is the sum of its
\* per-argument scores, less half the overtime penalty (overtime seconds
\* over 30, only when the total time is exceeded, the same for both
\* roles), less 2.5 when the role's debater spent no time; the winner is
\* the role of the higher total, and it is tie when there is no score.
C26_DecideTotalsAndWinner ==
  \A t \in Threads :
    pc[t] = "j_review" =>
      /\ C26Totals(t)
      /\ loc[t].result.per_argument = <<>> => loc[t].result.winner = "tie"

\* C26: a debate of two debaters and no argument has been decided: the
\* totals are equal and the Proponent is the winner.
C26_NoScoreProponentWins ==
  /\ pc["t1"] = "j_review"
  /\ sessions["s1"].transcript = <<>>
  /\ loc["t1"].result.per_argument = <<>>
  /\ loc["t1"].result.overall[PROPONENT] = loc["t1"].result.overall[OPPONENT]
  /\ loc["t1"].result.winner = PROPONENT

\* C27: after the Review stage the result is flagged for review exactly
\* when there is no per-argument score at all or when all the roles'
\* totals are equal once rounded to two decimals.
C27_FlaggedExactlyWhenAmbiguous ==
  \A t \in Threads :
    pc[t] = "j_deliver" =>
      LET judging == loc[t].result
      IN judging.needs_review <=>
           \/ judging.per_argument = <<>>
           \/ \A role, other \in DOMAIN judging.overall :
                RoundTotal(judging.overall[role]) =
                  RoundTotal(judging.overall[other])

\* C27: a debate with no argument in which only the Proponent let turns
\* time out has been reviewed: no score, unequal totals, not flagged.
C27_NoScoreNotFlagged ==
  /\ pc["t1"] = "j_deliver"
  /\ sessions["s1"].transcript = <<>>
  /\ loc["t1"].result.per_argument = <<>>
  /\ loc["t1"].result.overall[PROPONENT] > loc["t1"].result.overall[OPPONENT]
  /\ ~loc["t1"].result.needs_review

\* C29: the refreshes recorded for a session never exceed the refresh
\* limit, also when refresh requests for the session are handled at the
\* same time; and a refresh asked for once the limit is reached is
\* answered 429 and leaves the topic options, the counter and the status
\* as they were.
C29_RefreshesWithinLimit ==
  [][/\ \A sid \in DOMAIN sessions :
          sessions'[sid].topic_refreshes <= topic_refresh_limit
     /\ \A t \in Threads, sid \in DOMAIN sessions :
          (/\ GetTopics(t, sid, TRUE)
           /\ sessions[sid].topic_refreshes >= topic_refresh_limit) =>
            /\ loc'[t].out = "429"
            /\ UNCHANGED sessions]_vars

\* C29: two refresh requests for the same session have both passed the
\* check of the limit with no refresh recorded yet.
C29_TwoRefreshesPastTheCheck ==
  /\ pc["t1"] = "gt_set" /\ pc["t2"] = "gt_set"
  /\ loc["t1"].sid = "s1" /\ loc["t2"].sid = "s1"
  /\ loc["t1"].tmp /\ loc["t2"].tmp
  /\ sessions["s1"].topic_refreshes = 0

\* what C30 speaks of in a session: its status, participants, transcript,
\* current_turn, result and timers
Contained(sid) ==
  [status |-> sessions[sid].status,
   participants |-> [r \in DOMAIN sessions[sid].participants |->
                       parts[sessions[sid].participants[r]]],
   transcript |-> sessions[sid].transcript,
   current_turn |-> sessions[sid].current_turn,
   result |-> sessions[sid].result,
   turn_timer |-> TurnEntry(sid),
   total_timer |-> IF sid \in DOMAIN total_timers THEN {total_timers[sid]}
                   ELSE {},
   timers |-> {th \in timer_threads : th.sid = sid}]

\* no request, handler step or timer callback of session sid in this step
Untargeted(sid) ==
  /\ pc'[Handler[sid]] = pc[Handler[sid]]
  /\ loc'[Handler[sid]] = loc[Handler[sid]]
  /\ turn_tasks'[sid] = turn_tasks[sid]
  /\ total_tasks'[sid] = total_tasks[sid]

C31_ResultIffFinished ==
  \A sid \in DOMAIN sessions :
    sessions[sid].result # NoResult <=> sessions[sid].status = FINISHED

\* C31: a session that was judged and Finished is back in Veto, after a
\* refresh of its topics, and carries the result.
C31_JudgedSessionInVeto ==
  \E sid \in DOMAIN sessions :
    /\ sessions[sid].status = VETO
    /\ sessions[sid].result # NoResult
    /\ sessions[sid].topic_refreshes = 1
    /\ \A t \in Threads : pc[t] = "idle"

\* what C32 has frozen of a session: its status, transcript, current_turn,
\* total_elapsed_seconds, chosen_topic and result, and the role and the
\* time_spent_seconds of the participant in each slot
Frozen(sid) ==
  LET session == sessions[sid]
  IN <<session.status, session.transcript, session.current_turn,
       session.total_elapsed_seconds, session.chosen_topic, session.result,
       [r \in DOMAIN session.participants |->
          <<parts[session.participants[r]].role,
            parts[session.participants[r]].time_spent_seconds>>]>>

\* C32: Finished is terminal and frozen: no step taken when a session is
\* Finished changes its status, transcript, current_turn, participants'
\* roles and time_spent_seconds, total_elapsed_seconds, chosen_topic or
\* result, whatever request or late timer callback the step belongs to.
C32_FinishedIsFrozen ==
  [][\A sid \in DOMAIN sessions :
       sessions[sid].status = FINISHED => Frozen(sid)' = Frozen(sid)]_vars

\* C32: the debate was finished before any argument, and the handler of a
\* turn timeout queued earlier has charged the Proponent a turn since.
C32_ChargedAfterFinish ==
  /\ sessions["s1"].status = FINISHED
  /\ sessions["s1"].result.run = 1
  /\ pc["t1"] = "tt_total_r"
  /\ sessions["s1"].transcript = <<>>
  /\ parts[Alice].time_spent_seconds = default_turn_seconds
  /\ sessions["s1"].total_elapsed_seconds = 0

\* C33: a session's status is Debating only while both the Proponent's and
\* the Opponent's slot are occupied.
C33_DebatingHasBothDebaters ==
  \A sid \in DOMAIN sessions :
    sessions[sid].status = DEBATING =>
      DOMAIN sessions[sid].participants = Roles

\* C33: the host alone chose a custom topic and acknowledged the coin
\* toss: the session is Debating with the Opponent's slot empty, and the
\* timers of the debate are running.
C33_HostDebatesAlone ==
  /\ "s1" \in DOMAIN sessions
  /\ sessions["s1"].status = DEBATING
  /\ DOMAIN sessions["s1"].participants = {PROPONENT}
  /\ sessions["s1"].chosen_topic = "X"
  /\ sessions["s1"].result = NoResult
  /\ pc["t1"] = "idle"
  /\ Scheduled("turn", "s1") # {}
  /\ Scheduled("total", "s1") # {}

\* the total timer of session sid is scheduled, or its background task is
\* queued, or a handler is inside _finish_debate for the session
TotalPending(sid) ==
  \/ Scheduled("total", sid) # {}
  \/ total_tasks[sid] > 0
  \/ \E t \in Threads : pc[t] \in FinishLabels /\ loc[t].sid = sid

C35_TurnDeadlinePending ==
  \A sid \in DOMAIN sessions :
    (sessions[sid].status = DEBATING /\ \A t \in Threads : pc[t] = "idle") =>
      \/ Scheduled("turn", sid) # {}
      \/ turn_tasks[sid] > 0

\* C35: the debate was ended over the socket before any argument and the
\* scoring failed: the session is Debating, nothing was judged, no timer
\* is left and no timeout is queued.
C35_DebatingWithoutDeadline ==
  /\ sessions["s1"].status = DEBATING
  /\ sessions["s1"].transcript = <<>>
  /\ sessions["s1"].result = NoResult
  /\ judge_runs["s1"] = 0
  /\ \A t \in Threads : pc[t] = "idle"
  /\ timer_threads = {}
  /\ turn_timers = <<>> /\ total_timers = <<>>
  /\ turn_tasks["s1"] = 0 /\ total_tasks["s1"] = 0

\* C36: in every reachable state the length of a session's transcript is
\* at most max_turns.
C36_TranscriptWithinMaxTurns ==
  \A sid \in DOMAIN sessions :
    Len(sessions[sid].transcript) <= sessions[sid].max_turns

\* C36: an argument was accepted and recorded after the transcript had
\* reached max_turns: the judging of the full debate had failed, so the
\* session was still Debating.
C36_ArgumentPastMaxTurns ==
  /\ Len(sessions["s1"].transcript) = max_turns + 1
  /\ sessions["s1"].transcript[max_turns + 1].turn_index = max_turns
  /\ sessions["s1"].status = DEBATING
  /\ judge_runs["s1"] = 0
  /\ pc["t1"] = "sm_next"

\* the seconds the participants of a session have spent, summed
SpentSeconds(sid) ==
  LET ps == sessions[sid].participants
      spent(r) == IF r \in DOMAIN ps THEN parts[ps[r]].time_spent_seconds ELSE 0
  IN spent(PROPONENT) + spent(OPPONENT)

\* the seconds the arguments of a session's transcript took, summed
TakenSeconds(sid) ==
  TimeTaken(sessions[sid].transcript, PROPONENT)
    + TimeTaken(sessions[sid].transcript, OPPONENT)

\* C37: time accounting is conserved under any interleaving of submissions
\* and turn timeouts: once the handlers have ended, a session's
\* total_elapsed_seconds equals the sum of its participants'
\* time_spent_seconds, which is the sum of time_taken_seconds over the
\* transcript plus per_turn_limit for each of some number of turn timeouts.
C37_TimeConserved ==
  \A sid \in DOMAIN sessions :
    (\A t \in Threads : pc[t] = "idle") =>
      /\ sessions[sid].total_elapsed_seconds = SpentSeconds(sid)
      /\ \E timeouts \in 0..SpentSeconds(sid) :
           SpentSeconds(sid) =
             TakenSeconds(sid) + sessions[sid].per_turn_limit * timeouts

\* C37: the Proponent's argument, which took the whole turn, and the
\* timeout of the same turn were handled at the same time, and both
\* handlers have ended: two turns' time is in total_elapsed_seconds, one
\* in the Proponent's time_spent_seconds, none in the Opponent's.
C37_ChargeLost ==
  /\ \A t \in Threads : pc[t] = "idle"
  /\ Len(sessions["s1"].transcript) = 1
  /\ sessions["s1"].transcript[1].time_taken_seconds = default_turn_seconds
  /\ sessions["s1"].total_elapsed_seconds = 2 * default_turn_seconds
  /\ parts[Alice].time_spent_seconds = default_turn_seconds
  /\ parts[Bob].time_spent_seconds = 0

\* the participants of a socket's session that joined through the socket
\* (join_session, line 56, records the socket in the participant)
JoinedThrough(sock) ==
  {p \in DOMAIN parts :
     /\ parts[p].session_id = socket_participants[sock].session_id
     /\ parts[p].socket_id = sock}

\* C38: for every socket registered for a session, the role recorded for
\* the socket is the current role of a participant who joined through it,
\* also after select_topic has exchanged the two participants' roles
\* (stated for the states in which select_topic is not at work).
C38_SocketRoleIsParticipantRole ==
  lock = None =>
    \A sock \in DOMAIN socket_participants :
      \E p \in JoinedThrough(sock) :
        parts[p].role = socket_participants[sock].role

\* C38: Alice joined through socket k1 as the Proponent, the coin toss
\* made her the Opponent, and the argument she sent through k1 is in the
\* transcript under the name of Bob, who never opened a socket.
C38_ArgumentUnderOthersName ==
  /\ "k1" \in DOMAIN socket_participants
  /\ socket_participants["k1"].role = PROPONENT
  /\ JoinedThrough("k1") = {Alice}
  /\ parts[Alice].role = OPPONENT
  /\ Bob \in DOMAIN parts
  /\ parts[Bob].socket_id = None
  /\ Len(sessions["s1"].transcript) = 1
  /\ sessions["s1"].transcript[1].speaker_role = PROPONENT
  /\ sessions["s1"].transcript[1].speaker_name = "Bob"
  /\ pc["t1"] = "idle"

\* the positions at which a handler holds the result the pipeline delivered
DeliveredLabels == {"fs_complete", "fd_complete"}

\* C39: in a delivered result a role is the winner only when its adjusted
\* total is strictly greater than the other role's; when the two totals
\* are equal the result has no winner role (a tie) and is flagged for
\* review.
C39_WinnerStrictlyAhead ==
  \A t \in Threads :
    pc[t] \in DeliveredLabels =>
      LET result == loc[t].result
          overall == result.overall_score
      IN /\ \A role \in Roles :
              result.winner_role = role =>
                overall[role] > overall[next_role(role)]
         /\ overall[PROPONENT] = overall[OPPONENT] =>
              /\ result.winner_role = None
              /\ result.flagged_for_review

\* C39: two arguments were scored alike by the oracle and both debaters
\* spent time: the totals are equal, the result is flagged for review,
\* and the Proponent is delivered as the winner.
C39_EqualTotalsProponentWins ==
  /\ pc["t1"] \in DeliveredLabels
  /\ Len(loc["t1"].result.per_argument_scores) = 2
  /\ loc["t1"].result.invoked = {"oracle"}
  /\ loc["t1"].result.per_argument_scores[1].score =
       loc["t1"].result.per_argument_scores[2].score
  /\ loc["t1"].result.overall_score[PROPONENT] =
       loc["t1"].result.overall_score[OPPONENT]
  /\ loc["t1"].result.overall_score[PROPONENT] > 0
  /\ loc["t1"].result.flagged_for_review
  /\ loc["t1"].result.winner_role = PROPONENT

\* thread t takes up a request that selects topic for session sid
SelectionRequest(t, sid, topic) ==
  \/ \E custom \in BOOLEAN : SelectTopicRoute(t, sid, topic, custom)
  \/ \E sock \in DOMAIN socket_participants :
       /\ socket_participants[sock].session_id = sid
       /\ SetCustomTopic(t, sock, topic)

\* C40: in a session whose custom_topic_allowed flag is false the chosen
\* topic, once set, is one of the session's topic options, whichever route
\* or socket event selected it; and a request that selects a topic outside
\* the options is refused, with the session left as it was.
C40_ChosenTopicIsOffered ==
  /\ [](\A sid \in DOMAIN sessions :
          (~sessions[sid].custom_topic_allowed
             /\ sessions[sid].chosen_topic # None) =>
            sessions[sid].chosen_topic \in Range(sessions[sid].topic_options))
  /\ [][\A t \in Threads, sid \in DOMAIN sessions, topic \in NamedTopics :
          (/\ ~sessions[sid].custom_topic_allowed
           /\ topic \notin Range(sessions[sid].topic_options)
           /\ SelectionRequest(t, sid, topic)) =>
            /\ pc'[t] = "idle"
            /\ UNCHANGED <<sessions, parts>>]_vars

\* C40: in a random match with the topics A, B, C on offer, a player's
\* socket set the custom topic X: the session is in the coin toss on X.
C40_UnlistedTopicChosen ==
  /\ "s1" \in DOMAIN sessions
  /\ sessions["s1"].mode = "random"
  /\ ~sessions["s1"].custom_topic_allowed
  /\ sessions["s1"].topic_options = <<"A", "B", "C">>
  /\ sessions["s1"].topic_refreshes = 0
  /\ sessions["s1"].chosen_topic = "X"
  /\ sessions["s1"].status = COIN_TOSS
  /\ pc["t1"] = "idle"

====
